---- MODULE Spec2Model ----
(***************************************************************************)
(* Model of the dashboard pages of dashboard-jabar: the maternal-mortality *)
(* choropleth (CSV + GeoJSON load, cleaning, per-year aggregation, join of *)
(* the aggregate onto the polygon features) and the life-expectancy page.  *)
(*                                                                         *)
(* JavaScript strings are sequences of one-character strings.  A JS number *)
(* is a record [k, m, e]: k = "num" stands for m / 10^e, k = "nan" for NaN *)
(* and k = "inf" for +/-Infinity (m carries the sign).                     *)
(***************************************************************************)
EXTENDS Integers, Sequences, FiniteSets, TLC

\* ------------------------------------------------------------------------
\* Bounds of the model
\* ------------------------------------------------------------------------
MaxPieces == 4

MaxFieldPieces == 3

MaxRows == 2

MaxFeatures == 2

MaxAggRows == 3

\* the longest file a page of the load state machines is given
MaxPageRows == 2

\* the longest file a page is given where its progress is checked
MaxLoadRows == 1

\* ------------------------------------------------------------------------
\* JavaScript values
\* ------------------------------------------------------------------------
\* The value undefined, where a string is expected (a missing CSV column, a
\* missing GeoJSON property).  Its single element is not a character.
Undefined == <<"#undefined">>

\* String(undefined), the property key JavaScript uses for obj[undefined].
UndefinedKey == <<"u", "n", "d", "e", "f", "i", "n", "e", "d">>

NaN == [k |-> "nan", m |-> 0, e |-> 0]

Num(n) == [k |-> "num", m |-> n, e |-> 0]

isNaN(x) == x.k = "nan"

isFinite(x) == x.k = "num"

\* ------------------------------------------------------------------------
\* Characters
\* ------------------------------------------------------------------------
LowerCase == <<"a", "b", "c", "d", "e", "f", "g", "h", "i", "j", "k", "l", "m",
               "n", "o", "p", "q", "r", "s", "t", "u", "v", "w", "x", "y", "z">>

UpperCase == <<"A", "B", "C", "D", "E", "F", "G", "H", "I", "J", "K", "L", "M",
               "N", "O", "P", "Q", "R", "S", "T", "U", "V", "W", "X", "Y", "Z">>

Digits == <<"0", "1", "2", "3", "4", "5", "6", "7", "8", "9">>

WhiteSpace == {" ", "\t"}

IndexOf(c, table) == CHOOSE i \in 1..Len(table) : table[i] = c

UpperOf == [c \in {LowerCase[i] : i \in 1..26} |-> UpperCase[IndexOf(c, LowerCase)]]

LowerOf == [c \in {UpperCase[i] : i \in 1..26} |-> LowerCase[IndexOf(c, UpperCase)]]

\* String.prototype.toUpperCase on one ASCII character
ToUpperChar(c) == IF c \in DOMAIN UpperOf THEN UpperOf[c] ELSE c

\* String.prototype.toLowerCase on one ASCII character
ToLowerChar(c) == IF c \in DOMAIN LowerOf THEN LowerOf[c] ELSE c

toUpperCase(s) == [i \in 1..Len(s) |-> ToUpperChar(s[i])]

toLowerCase(s) == [i \in 1..Len(s) |-> ToLowerChar(s[i])]

DigitOf == [c \in {Digits[i] : i \in 1..10} |-> IndexOf(c, Digits) - 1]

IsDigit(c) == c \in DOMAIN DigitOf

DigitValue(c) == DigitOf[c]

\* ------------------------------------------------------------------------
\* String.prototype.trim
\* ------------------------------------------------------------------------
RECURSIVE trimStart(_)
trimStart(s) ==
  IF s # <<>> /\ Head(s) \in WhiteSpace THEN trimStart(Tail(s)) ELSE s

RECURSIVE trimEnd(_)
trimEnd(s) ==
  IF s # <<>> /\ s[Len(s)] \in WhiteSpace
  THEN trimEnd(SubSeq(s, 1, Len(s) - 1))
  ELSE s

trim(s) == trimEnd(trimStart(s))

\* s?.trim(): undefined stays undefined
optTrim(s) == IF s = Undefined THEN Undefined ELSE trim(s)

\* ------------------------------------------------------------------------
\* String.prototype.replace(/KABUPATEN /gi, "")
\* ------------------------------------------------------------------------
PrefixToken == <<"K", "A", "B", "U", "P", "A", "T", "E", "N", " ">>

\* the regular expression matches at position i of s, ignoring case
MatchesAt(s, i, pat) ==
  /\ i + Len(pat) - 1 <= Len(s)
  /\ \A j \in 1..Len(pat) : ToUpperChar(s[i + j - 1]) = ToUpperChar(pat[j])

\* global replace: scan left to right, matches do not overlap and the
\* result is not rescanned
RECURSIVE replaceAllFrom(_, _, _)
replaceAllFrom(s, i, pat) ==
  IF i > Len(s) THEN <<>>
  ELSE IF MatchesAt(s, i, pat) THEN replaceAllFrom(s, i + Len(pat), pat)
  ELSE <<s[i]>> \o replaceAllFrom(s, i + 1, pat)

\* a replace that removes "KOTA " as well
replaceKabupatenOrKota(s) ==
  replaceAllFrom(replaceAllFrom(s, 1, PrefixToken), 1, <<"K", "O", "T", "A", " ">>)

replaceKabupaten(s) == replaceAllFrom(s, 1, PrefixToken)

\* the name normalization without its trim
normalizeKeyNoTrim(raw) ==
  IF raw = Undefined THEN Undefined
  ELSE toUpperCase(replaceKabupaten(raw))

\* row.nama_kabupaten_kota?.replace(/KABUPATEN /gi, "")?.trim().toUpperCase()
normalizeKey(raw) ==
  IF raw = Undefined THEN Undefined
  ELSE toUpperCase(trim(replaceKabupaten(raw)))

\* d.properties?.KABKOT?.trim().toUpperCase()
featureKey(kabkot) ==
  IF kabkot = Undefined THEN Undefined
  ELSE toUpperCase(trim(kabkot))

\* ------------------------------------------------------------------------
\* parseInt(string) and parseFloat(string)
\* ------------------------------------------------------------------------
RECURSIVE digitPrefix(_)
digitPrefix(s) ==
  IF s # <<>> /\ IsDigit(Head(s)) THEN <<Head(s)>> \o digitPrefix(Tail(s)) ELSE <<>>

RECURSIVE digitsValue(_)
digitsValue(ds) ==
  IF ds = <<>> THEN 0
  ELSE 10 * digitsValue(SubSeq(ds, 1, Len(ds) - 1)) + DigitValue(ds[Len(ds)])

signOf(s) == IF s # <<>> /\ Head(s) = "-" THEN -1 ELSE 1

dropSign(s) == IF s # <<>> /\ Head(s) \in {"+", "-"} THEN Tail(s) ELSE s

\* parseInt with no radix: leading white space is skipped, an optional sign is
\* read, then the longest run of decimal digits; what follows is ignored
parseInt(str) ==
  LET input == IF str = Undefined THEN UndefinedKey ELSE str
      S == trimStart(input)
      Z == digitPrefix(dropSign(S))
  IN IF Z = <<>> THEN NaN ELSE Num(signOf(S) * digitsValue(Z))

InfinityWord == <<"I", "n", "f", "i", "n", "i", "t", "y">>

StartsWith(s, p) == Len(s) >= Len(p) /\ SubSeq(s, 1, Len(p)) = p

RECURSIVE stripTrailingZeros(_)
stripTrailingZeros(x) ==
  IF x.e > 0 /\ x.m % 10 = 0
  THEN stripTrailingZeros([k |-> "num", m |-> x.m \div 10, e |-> x.e - 1])
  ELSE x

\* parseFloat: leading white space is skipped, then the longest prefix that
\* is a decimal literal (sign, Infinity, digits, fraction) is read
parseFloat(str) ==
  LET input == IF str = Undefined THEN UndefinedKey ELSE str
      S == trimStart(input)
      sgn == signOf(S)
      U == dropSign(S)
      ip == digitPrefix(U)
      afterInt == SubSeq(U, Len(ip) + 1, Len(U))
      hasDot == afterInt # <<>> /\ Head(afterInt) = "."
      fp == IF hasDot THEN digitPrefix(Tail(afterInt)) ELSE <<>>
  IN IF StartsWith(U, InfinityWord) THEN [k |-> "inf", m |-> sgn, e |-> 0]
     ELSE IF ip = <<>> /\ fp = <<>> THEN NaN
     ELSE stripTrailingZeros([k |-> "num", m |-> sgn * digitsValue(ip \o fp), e |-> Len(fp)])


\* ------------------------------------------------------------------------
\* Arithmetic on JavaScript numbers
\* ------------------------------------------------------------------------
RECURSIVE Pow10(_)
Pow10(n) == IF n = 0 THEN 1 ELSE 10 * Pow10(n - 1)

\* a + b
Add(a, b) ==
  IF isNaN(a) \/ isNaN(b) THEN NaN
  ELSE IF a.k = "inf" /\ b.k = "inf" THEN (IF a.m = b.m THEN a ELSE NaN)
  ELSE IF a.k = "inf" THEN a
  ELSE IF b.k = "inf" THEN b
  ELSE LET ex == IF a.e > b.e THEN a.e ELSE b.e
       IN stripTrailingZeros([k |-> "num",
                              m |-> a.m * Pow10(ex - a.e) + b.m * Pow10(ex - b.e),
                              e |-> ex])

\* the sign of a - b: -1, 0 or 1, and 0 when a - b is NaN (a comparator
\* result of NaN is treated as 0 by Array.prototype.sort)
SignOfDiff(a, b) ==
  IF isNaN(a) \/ isNaN(b) THEN 0
  ELSE IF a.k = "inf" /\ b.k = "inf" THEN (IF a.m = b.m THEN 0 ELSE a.m)
  ELSE IF a.k = "inf" THEN a.m
  ELSE IF b.k = "inf" THEN -b.m
  ELSE LET ex == IF a.e > b.e THEN a.e ELSE b.e
           d == a.m * Pow10(ex - a.e) - b.m * Pow10(ex - b.e)
       IN IF d < 0 THEN -1 ELSE IF d > 0 THEN 1 ELSE 0

\* ToNumber of a string, as the subtraction b - a applies it to its operands:
\* the whole trimmed string must be a decimal literal, the empty string is 0
ToNumber(str) ==
  LET t == trim(str)
      body == dropSign(t)
      ip == digitPrefix(body)
      rest == SubSeq(body, Len(ip) + 1, Len(body))
      fp == IF rest # <<>> /\ Head(rest) = "." THEN digitPrefix(Tail(rest)) ELSE <<>>
      whole == \/ rest = <<>>
               \/ (Head(rest) = "." /\ Len(fp) = Len(rest) - 1)
  IN IF t = <<>> THEN Num(0)
     ELSE IF body = InfinityWord THEN [k |-> "inf", m |-> signOf(t), e |-> 0]
     ELSE IF (ip = <<>> /\ fp = <<>>) \/ ~whole THEN NaN
     ELSE stripTrailingZeros([k |-> "num", m |-> signOf(t) * digitsValue(ip \o fp), e |-> Len(fp)])

\* ------------------------------------------------------------------------
\* Array helpers
\* ------------------------------------------------------------------------
Includes(arr, x) == \E i \in 1..Len(arr) : arr[i] = x

\* [...new Set(arr)]: the distinct elements in order of first occurrence
RECURSIVE unique(_)
unique(arr) ==
  IF arr = <<>> THEN <<>>
  ELSE LET init == unique(SubSeq(arr, 1, Len(arr) - 1))
           last == arr[Len(arr)]
       IN IF Includes(init, last) THEN init ELSE Append(init, last)

Elements(arr) == { arr[i] : i \in 1..Len(arr) }

\* insert x into the sorted array, before the first element it must precede;
\* cmp[<<a, b>>] is the sign of the comparator's result
insertSorted(sorted, x, cmp) ==
  LET before == { j \in 1..Len(sorted) : cmp[<<x, sorted[j]>>] < 0 }
      at == IF before = {} THEN Len(sorted) + 1
            ELSE CHOOSE j \in before : \A j2 \in before : j <= j2
  IN SubSeq(sorted, 1, at - 1) \o <<x>> \o SubSeq(sorted, at, Len(sorted))

\* Array.prototype.sort(cmp): a stable sort
sort(arr, cmp) ==
  LET sorted[i \in 0..Len(arr)] ==
        IF i = 0 THEN <<>> ELSE insertSorted(sorted[i - 1], arr[i], cmp)
  IN sorted[Len(arr)]

\* a value is truthy: neither undefined nor the empty string
Truthy(str) == str # Undefined /\ str # <<>>


\* ------------------------------------------------------------------------
\* Choropleth page: cleaning of the CSV rows
\* ------------------------------------------------------------------------
JAWA_BARAT == <<"J", "A", "W", "A", " ", "B", "A", "R", "A", "T">>

\* the object the cleaning map builds from one parsed CSV row
cleanRow(row) ==
  [ nama_kabupaten_kota |-> normalizeKey(row.nama_kabupaten_kota),
    jumlah_kematian |-> parseInt(row.jumlah_kematian),
    tahun |-> optTrim(row.tahun),
    provinsi |-> optTrim(row.nama_provinsi) ]

\* the filter of the cleaning step without the numeric test
keepRowAnyNumber(r) ==
  /\ r.provinsi = JAWA_BARAT
  /\ Truthy(r.nama_kabupaten_kota)
  /\ Truthy(r.tahun)

\* the filter of the cleaning step
keepRow(r) ==
  /\ r.provinsi = JAWA_BARAT
  /\ ~isNaN(r.jumlah_kematian)
  /\ Truthy(r.nama_kabupaten_kota)
  /\ Truthy(r.tahun)

\* const cleaned = data.map(...).SelectSeq(...)
cleaned(data) == SelectSeq([i \in 1..Len(data) |-> cleanRow(data[i])], keepRow)

\* the comparator (a, b) => b - a on the elements of arr, reduced to its sign
yearDescending(arr) ==
  [p \in Elements(arr) \X Elements(arr) |-> SignOfDiff(ToNumber(p[2]), ToNumber(p[1]))]

\* [...new Set(cleaned.map((r) => r.tahun))].sort((a, b) => b - a)
uniqueYears(rows) ==
  LET years == unique([i \in 1..Len(rows) |-> rows[i].tahun])
  IN sort(years, yearDescending(years))

\* ------------------------------------------------------------------------
\* Choropleth page: pre-processing of the GeoJSON features
\* ------------------------------------------------------------------------
\* the body of features.map: the feature object itself is assigned to
processFeature(feature) ==
  IF Truthy(feature.properties.KABKOT)
  THEN [feature EXCEPT !.id = toUpperCase(trim(feature.properties.KABKOT))]
  ELSE IF Truthy(feature.id)
  THEN [feature EXCEPT !.id = toUpperCase(trim(feature.id))]
  ELSE feature

\* ------------------------------------------------------------------------
\* Choropleth page: the draw effect
\* ------------------------------------------------------------------------
\* the value of a property that the object does not have
UndefinedValue == [k |-> "undefined", m |-> 0, e |-> 0]

\* acc[key]
Lookup(acc, key) == IF key \in DOMAIN acc THEN acc[key] ELSE UndefinedValue

\* !acc[key]: undefined, 0 and NaN are falsy
Falsy(x) == x.k \in {"undefined", "nan"} \/ (x.k = "num" /\ x.m = 0)

\* acc with acc[key] set to value
Assign(acc, key, value) ==
  [k \in DOMAIN acc \cup {key} |-> IF k = key THEN value ELSE acc[k]]

EmptyObject == [k \in {} |-> NaN]

\* a reducer that assigns the row's number instead of adding it
reducerLastWins(acc, curr) ==
  LET kotaId == curr.nama_kabupaten_kota
  IN Assign(acc, kotaId, curr.jumlah_kematian)

\* the reducer: if (!acc[kotaId]) acc[kotaId] = 0; acc[kotaId] += curr.jumlah_kematian
reducer(acc, curr) ==
  LET kotaId == curr.nama_kabupaten_kota
      zeroed == IF Falsy(Lookup(acc, kotaId)) THEN Assign(acc, kotaId, Num(0)) ELSE acc
  IN Assign(zeroed, kotaId, Add(zeroed[kotaId], curr.jumlah_kematian))

\* the aggregate over all rows, whatever their year
aggregateAllYears(rows, year) ==
  LET acc[i \in 0..Len(rows)] ==
        IF i = 0 THEN EmptyObject ELSE reducer(acc[i - 1], rows[i])
  IN acc[Len(rows)]

\* rawData.SelectSeq((d) => d.tahun === selectedYear).reduce(..., {})
aggregatedData(rows, year) ==
  LET isYear(d) == d.tahun = year
      filteredByYear == SelectSeq(rows, isYear)
      acc[i \in 0..Len(filteredByYear)] ==
        IF i = 0 THEN EmptyObject ELSE reducer(acc[i - 1], filteredByYear[i])
  IN acc[Len(filteredByYear)]

\* the property key of aggregatedData[kotaNameFromGeoJson]
PropertyKey(name) == IF name = Undefined THEN UndefinedKey ELSE name

\* a fill attribute: a literal colour, or the colour the sequential scale
\* gives for the input x, interpolateReds(n / d), possibly darkened
Literal(hex) ==
  [kind |-> "literal", hex |-> hex, darker |-> FALSE, x |-> UndefinedValue, n |-> 0, d |-> 1]

\* Object.values(aggregatedData)
values(agg) == { agg[k] : k \in DOMAIN agg }

\* Math.max(...values) and Math.min(...values) of a non-empty set of integers
MathMax(vs) == CHOOSE v \in vs : \A w \in vs : SignOfDiff(w, v) <= 0

MathMin(vs) == CHOOSE v \in vs : \A w \in vs : SignOfDiff(v, w) <= 0

\* [minVal, maxVal === 0 ? 1 : maxVal]
scaleDomain(agg) ==
  LET vs == values(agg)
      maxVal == IF vs # {} THEN MathMax(vs) ELSE Num(1)
      minVal == IF vs # {} THEN MathMin(vs) ELSE Num(0)
  IN <<minVal, IF maxVal = Num(0) THEN Num(1) ELSE maxVal>>

\* a sequential scale that divides by the width of its domain whatever it is
colorScaleLinear(domain, x) ==
  LET x0 == domain[1]
      x1 == domain[2]
      ex == IF x.e > x0.e THEN x.e ELSE x0.e
      width == (x1.m - x0.m) * Pow10(ex)
  IN IF x.k # "num" \/ width = 0
     THEN [kind |-> "NaN", hex |-> "", darker |-> FALSE, x |-> x, n |-> 0, d |-> 0]
     ELSE [kind |-> "reds", hex |-> "", darker |-> FALSE, x |-> x,
           n |-> x.m * Pow10(ex - x.e) - x0.m * Pow10(ex), d |-> width]

\* d3.scaleSequential().domain(domain).interpolator(d3.interpolateReds)
\* applied to x: t = 0.5 on a domain of width zero, (x - x0) / (x1 - x0)
\* otherwise; the domain holds integers
colorScale(domain, x) ==
  LET x0 == domain[1]
      x1 == domain[2]
      ex == IF x.e > x0.e THEN x.e ELSE x0.e
      width == (x1.m - x0.m) * Pow10(ex)
  IN IF x.k # "num"
     THEN [kind |-> "unknown", hex |-> "", darker |-> FALSE, x |-> x, n |-> 0, d |-> 1]
     ELSE IF width = 0
     THEN [kind |-> "reds", hex |-> "", darker |-> FALSE, x |-> x, n |-> 1, d |-> 2]
     ELSE [kind |-> "reds", hex |-> "", darker |-> FALSE, x |-> x,
           n |-> x.m * Pow10(ex - x.e) - x0.m * Pow10(ex), d |-> width]

\* d3.rgb(color).darker(0.5)
darker(color) == [color EXCEPT !.darker = TRUE]

\* the fill callback reading the feature's id when it has no name
fillOfNameOrId(feature, agg) ==
  LET name == IF Truthy(feature.properties.KABKOT)
              THEN feature.properties.KABKOT ELSE feature.id
      kotaNameFromGeoJson == featureKey(name)
      value == Lookup(agg, PropertyKey(kotaNameFromGeoJson))
  IN [ key |-> kotaNameFromGeoJson,
       value |-> value,
       fill |-> IF value # UndefinedValue
                THEN colorScale(scaleDomain(agg), value) ELSE Literal("#ccc") ]

\* what the fill callback computes for one feature
fillOf(feature, agg) ==
  LET kotaNameFromGeoJson == featureKey(feature.properties.KABKOT)
      value == Lookup(agg, PropertyKey(kotaNameFromGeoJson))
  IN [ key |-> kotaNameFromGeoJson,
       value |-> value,
       fill |-> IF value # UndefinedValue
                THEN colorScale(scaleDomain(agg), value) ELSE Literal("#ccc") ]

\* the tooltip's value and the highlight fill the mouseover handler sets
mouseoverOf(feature, agg) ==
  LET kotaNameFromGeoJson == featureKey(feature.properties.KABKOT)
      value == Lookup(agg, PropertyKey(kotaNameFromGeoJson))
      highlightValue == Lookup(agg, PropertyKey(kotaNameFromGeoJson))
  IN [ value |-> value,
       fill |-> IF highlightValue # UndefinedValue
                THEN darker(colorScale(scaleDomain(agg), highlightValue))
                ELSE Literal("#999") ]

\* a mouseout handler testing the value's truthiness
mouseoutTruthy(feature, agg) ==
  LET kotaNameFromGeoJson == featureKey(feature.properties.KABKOT)
      value == Lookup(agg, PropertyKey(kotaNameFromGeoJson))
  IN IF ~Falsy(value) THEN colorScale(scaleDomain(agg), value) ELSE Literal("#ccc")

\* the fill the mouseout handler sets back
mouseoutOf(feature, agg) ==
  LET kotaNameFromGeoJson == featureKey(feature.properties.KABKOT)
      value == Lookup(agg, PropertyKey(kotaNameFromGeoJson))
  IN IF value # UndefinedValue THEN colorScale(scaleDomain(agg), value) ELSE Literal("#ccc")

\* d3.range(0, legendWidth, legendWidth / 10)
legendWidth == 200

legendStops == [i \in 1..10 |-> (i - 1) * (legendWidth \div 10)]

\* legendScale.invert(d) for the linear scale of the same domain onto
\* [0, legendWidth]: x0 + (d / legendWidth) * (x1 - x0)
legendInvert(domain, d) ==
  stripTrailingZeros([k |-> "num",
                      m |-> 1000 * domain[1].m + 5 * d * (domain[2].m - domain[1].m),
                      e |-> 3])

\* the fills of the legend's rects
legendFills(domain) ==
  [i \in 1..10 |-> colorScale(domain, legendInvert(domain, legendStops[i]))]

\* ------------------------------------------------------------------------
\* State
\* ------------------------------------------------------------------------
VARIABLES
  \* one application of the cleaning functions to one raw string
  pureKind,      \* "name": a region name, "field": a numeric field, "none"
  purePieces,    \* the pieces the raw string was put together from
  pureIn,        \* the raw string
  pureOut,       \* the value computed from it
  purePc,        \* "raw", then "once"/"twice" for names, "int"/"float" for fields
  \* MaternalMortalityD3Map (choropleth page)
  pc,            \* position of the load effect: "init", "fetching", "geoJson",
                 \* "csvText", "done"
  csvStatus,     \* the CSV source: "pending", "rejected", "notOk", "ok",
                 \* "parseErrors", "parsed"
  geoStatus,     \* the GeoJSON source: "pending", "rejected", "notOk", "ok",
                 \* "unparsable", "empty", "malformed", "decoded"
  csvData,       \* the rows PapaParse handed to the complete callback
  featureHeap,   \* the feature objects of the decoded GeoJSON, as they are now
  decodedFeatures, \* the same objects as they were when decoded
  geoJsonObj,    \* local of the then-callback: [isNull, features]
  rawData,
  geoJsonData,   \* [isNull, features]; features are indices into featureHeap
  selectedYear,
  availableYears,
  isLoading,
  error,
  svgMap,        \* what the draw effect last put into the svg element
  \* LifeExpectancy page
  lePc,          \* "init", "fetching", "rejected", "done"
  leStatus,      \* outcome of the fetch: "none", "ok", "notOk", "rejected"
  leData,
  leYearOptions,
  leYear,
  regionType,
  \* one application of a page's cleaning and aggregation to one parsed file
  aggPage,       \* "map", "facility", "imu", "infant", or "none"
  aggData,       \* the rows Papa.parse hands to the complete callback
  aggRows,       \* the cleaned rows (the page's rawData)
  aggSel,        \* the selection: year, region, or selected cities
  aggOut,        \* the aggregate computed for the selection
  aggPc,         \* "idle", "parsed", "cleaned", "reduced"
  \* the mounted page, and its state when it is HealthFacilityPieChart,
  \* ImmunizationCoverageBarChart, HealthCorrelationScatterPlot or
  \* InfantMortalityChart
  mounted,       \* "facility", "imu", "corr", "infant"; "map" for the choropleth
                 \* page, "none" when no page is mounted
  pgPc,          \* position of the load effect: "init", "fetching", "text", "done"
  pgData,        \* the rows Papa.parse handed over: [first, second]
  pgLoading,     \* isLoading
  pgError,       \* error
  pgRaw,         \* rawData; processedData on the correlation page
  pgOptions,     \* regions, yearOptions, availableYears or availableKotas
  pgSelected,    \* selectedRegion, selectedYear or selectedKotas
  pgType         \* selectedRegionType

aggVars == <<aggPage, aggData, aggRows, aggSel, aggOut, aggPc>>

pgVars == <<mounted, pgPc, pgData, pgLoading, pgError, pgRaw, pgOptions, pgSelected, pgType>>

pureVars == <<pureKind, purePieces, pureIn, pureOut, purePc>>

mapVars == <<pc, csvStatus, geoStatus, csvData, featureHeap, decodedFeatures, geoJsonObj, rawData,
             geoJsonData, selectedYear, availableYears, isLoading, error, svgMap>>

leVars == <<lePc, leStatus, leData, leYearOptions, leYear, regionType>>

vars == <<pureKind, purePieces, pureIn, pureOut, purePc,
          pc, csvStatus, geoStatus, csvData, featureHeap, decodedFeatures, geoJsonObj, rawData,
          geoJsonData, selectedYear, availableYears, isLoading, error, svgMap,
          lePc, leStatus, leData, leYearOptions, leYear, regionType,
          aggPage, aggData, aggRows, aggSel, aggOut, aggPc,
          mounted, pgPc, pgData, pgLoading, pgError, pgRaw, pgOptions, pgSelected, pgType>>

\* ------------------------------------------------------------------------
\* Raw strings handed to the cleaning functions
\* ------------------------------------------------------------------------
KABUPATEN == <<"K", "A", "B", "U", "P", "A", "T", "E", "N">>

KOTA == <<"K", "O", "T", "A">>

SP == <<" ">>

NamePieces ==
  { KABUPATEN \o SP,
    toLowerCase(KABUPATEN) \o SP,
    KABUPATEN,
    KOTA \o SP,
    <<"k", "o", "t", "a", " ">>,
    <<"K", "A", "B", "U", "P", "A">>,
    <<"T", "E", "N", " ">>,
    <<"X">>,
    <<"y">>,
    SP,
    <<"\t">> }

FieldPieces ==
  { <<"1">>, <<"2">>, <<"0">>, <<"7">>, <<".">>, <<"-">>, <<"+">>, SP,
    <<"a">>, <<"N", "/", "A">>, InfinityWord }

RECURSIVE Concat(_)
Concat(ps) == IF ps = <<>> THEN <<>> ELSE Head(ps) \o Concat(Tail(ps))

PieceSeqs(P, max) == UNION { [1..n -> P] : n \in 0..max }

\* ------------------------------------------------------------------------
\* Choropleth page: inputs
\* ------------------------------------------------------------------------
BANDUNG == <<"B", "A", "N", "D", "U", "N", "G">>

GARUT == <<"G", "A", "R", "U", "T">>

Y2020 == <<"2", "0", "2", "0">>

Y2021 == <<"2", "0", "2", "1">>

\* the years the option elements of a year dropdown can carry
Years == {Y2020, Y2021}

JAWA_TIMUR == <<"J", "A", "W", "A", " ", "T", "I", "M", "U", "R">>

CsvRow(name, count, year, prov) ==
  [ nama_kabupaten_kota |-> name, jumlah_kematian |-> count,
    tahun |-> year, nama_provinsi |-> prov ]

\* the rows a CSV file is made of
CsvRowUniverse ==
  { CsvRow(KABUPATEN \o SP \o BANDUNG, <<"1", "0">>, Y2020, JAWA_BARAT),
    CsvRow(KABUPATEN \o SP \o BANDUNG, <<"5">>, Y2020, JAWA_BARAT),
    CsvRow(KOTA \o SP \o BANDUNG, <<"7">>, Y2020, JAWA_BARAT),
    CsvRow(BANDUNG, <<"N", "/", "A">>, Y2020, JAWA_BARAT),
    CsvRow(SP \o toLowerCase(GARUT), <<"5", "a">>, Y2020 \o SP, JAWA_BARAT),
    CsvRow(BANDUNG, <<"2">>, Y2021, JAWA_BARAT),
    CsvRow(GARUT, <<"0">>, Y2021, JAWA_BARAT),
    CsvRow(GARUT, <<"3">>, Y2021, JAWA_TIMUR) }

CsvFiles == UNION { [1..n -> CsvRowUniverse] : n \in 0..MaxRows }

Feature(id, kabkot, geometry) ==
  [ id |-> id, properties |-> [KABKOT |-> kabkot], geometry |-> geometry ]

\* the features a GeoJSON file is made of, in the order of the file
FeatureUniverse ==
  << Feature(Undefined, BANDUNG, "polygonA"),
     Feature(<<"x", "1">>, SP \o <<"G", "a", "r", "u", "t">> \o SP, "polygonB"),
     Feature(Undefined, KABUPATEN \o SP \o BANDUNG, "polygonC"),
     Feature(toLowerCase(BANDUNG), Undefined, "polygonD"),
     Feature(BANDUNG, <<>>, "polygonE") >>

\* the features at the positions in S, in their order
FeaturesAt(S) ==
  LET acc[i \in 0..Len(FeatureUniverse)] ==
        IF i = 0 THEN <<>>
        ELSE IF i \in S THEN Append(acc[i - 1], FeatureUniverse[i]) ELSE acc[i - 1]
  IN acc[Len(FeatureUniverse)]

\* the files: one to MaxFeatures distinct features
FeatureCollections ==
  { FeaturesAt(S) : S \in { T \in SUBSET (1..Len(FeatureUniverse)) :
                              Cardinality(T) \in 1..MaxFeatures } }

\* ------------------------------------------------------------------------
\* Choropleth page: state machine
\* ------------------------------------------------------------------------
Null == <<>>

NullGeoJson == [isNull |-> TRUE, features |-> <<>>]

NotDrawn ==
  [ drawn |-> FALSE, year |-> <<>>, aggregatedData |-> EmptyObject,
    paths |-> <<>>, hover |-> <<>>, out |-> <<>>, legend |-> <<>> ]

MsgFetch == <<"Gagal memuat data">>

MsgGeoNotFound == "File GeoJSON tidak ditemukan/tidak dapat diakses. Fitur peta tidak akan ditampilkan."

MsgGeoInvalid == "GeoJSON kosong atau tidak valid. Fitur peta tidak akan ditampilkan."

MsgGeoParse == "Gagal mengurai GeoJSON. Pastikan formatnya benar."

MsgCsvParse == "Terjadi kesalahan saat mengurai data CSV."

\* setError((prev) => prev ? prev + " | ..." : "..."): an error text is the
\* sequence of the messages joined by " | "
appendError(prev, msg) == IF prev # Null THEN Append(prev, msg) ELSE <<msg>>

\* which of the three returns of the component is rendered
ViewOf(loading, err) ==
  IF loading THEN "loading" ELSE IF err # Null THEN "error" ELSE "main"

View == ViewOf(isLoading, error)

\* the tooltip's displayValue for one drawn path
TidakTersedia == [k |-> "Tidak Tersedia", m |-> 0, e |-> 0]

displayValue(path) == IF path.value # UndefinedValue THEN path.value ELSE TidakTersedia

\* a draw effect without its guard
drawEffectUnguarded(old, heap, rows, geo, year, view) ==
  LET agg == aggregatedData(rows, year)
  IN [ drawn |-> TRUE,
       year |-> year,
       aggregatedData |-> agg,
       paths |-> [i \in 1..Len(geo.features) |-> fillOf(heap[geo.features[i]], agg)],
       hover |-> [i \in 1..Len(geo.features) |-> mouseoverOf(heap[geo.features[i]], agg)],
       out |-> [i \in 1..Len(geo.features) |-> mouseoutOf(heap[geo.features[i]], agg)],
       legend |-> legendFills(scaleDomain(agg)) ]

\* the draw effect, run after a commit that changed one of its dependencies:
\* the content of the svg element afterwards
drawEffect(old, heap, rows, geo, year, view) ==
  IF geo.isNull \/ Len(rows) = 0 \/ ~Truthy(year) \/ view # "main"
  THEN old
  ELSE LET agg == aggregatedData(rows, year)
       IN [ drawn |-> TRUE,
            year |-> year,
            aggregatedData |-> agg,
            paths |-> [i \in 1..Len(geo.features) |-> fillOf(heap[geo.features[i]], agg)],
            hover |-> [i \in 1..Len(geo.features) |-> mouseoverOf(heap[geo.features[i]], agg)],
            out |-> [i \in 1..Len(geo.features) |-> mouseoutOf(heap[geo.features[i]], agg)],
            legend |-> legendFills(scaleDomain(agg)) ]

InitMap ==
  /\ pc = "init"
  /\ csvStatus = "pending"
  /\ geoStatus = "pending"
  /\ csvData = <<>>
  /\ featureHeap = <<>>
  /\ decodedFeatures = <<>>
  /\ geoJsonObj = NullGeoJson
  /\ rawData = <<>>
  /\ geoJsonData = NullGeoJson
  /\ selectedYear = <<>>
  /\ availableYears = <<>>
  /\ isLoading = TRUE
  /\ error = Null
  /\ svgMap = NotDrawn

\* mount: the load effect starts both fetches, the draw effect finds no data
Mount ==
  /\ mounted = "map"
  /\ pc = "init"
  /\ pc' = "fetching"
  /\ isLoading' = TRUE
  /\ error' = Null
  /\ svgMap' = drawEffect(svgMap, featureHeap, rawData, geoJsonData, selectedYear,
                          ViewOf(TRUE, Null))
  /\ UNCHANGED <<csvStatus, geoStatus, csvData, featureHeap, decodedFeatures, geoJsonObj, rawData,
                 geoJsonData, selectedYear, availableYears>>
  /\ UNCHANGED <<pureVars, leVars, aggVars, pgVars>>

\* one of the two fetches rejects: Promise.all rejects, the catch handler runs
FetchReject(which) ==
  /\ mounted = "map"
  /\ pc = "fetching"
  /\ pc' = "done"
  /\ csvStatus' = IF which = "csv" THEN "rejected" ELSE csvStatus
  /\ geoStatus' = IF which = "geo" THEN "rejected" ELSE geoStatus
  /\ error' = MsgFetch
  /\ isLoading' = FALSE
  /\ UNCHANGED <<csvData, featureHeap, decodedFeatures, geoJsonObj, rawData,
                 geoJsonData, selectedYear, availableYears, svgMap>>
  /\ UNCHANGED <<pureVars, leVars, aggVars, pgVars>>

\* both fetches resolve: the then-callback up to its first await
FetchResolve(csvOk, geoOk) ==
  /\ mounted = "map"
  /\ pc = "fetching"
  /\ csvStatus' = IF csvOk THEN "ok" ELSE "notOk"
  /\ geoStatus' = IF geoOk THEN "ok" ELSE "notOk"
  /\ IF ~csvOk
     THEN /\ pc' = "done"
          /\ error' = MsgFetch
          /\ isLoading' = FALSE
     ELSE IF ~geoOk
     THEN /\ pc' = "csvText"
          /\ error' = appendError(error, MsgGeoNotFound)
          /\ UNCHANGED isLoading
     ELSE /\ pc' = "geoJson"
          /\ UNCHANGED <<error, isLoading>>
  /\ UNCHANGED <<csvData, featureHeap, decodedFeatures, geoJsonObj, rawData,
                 geoJsonData, selectedYear, availableYears, svgMap>>
  /\ UNCHANGED <<pureVars, leVars, aggVars, pgVars>>

\* geoJsonRes.json() throws: the body is not JSON
GeoJsonUnparsable ==
  /\ mounted = "map"
  /\ pc = "geoJson"
  /\ pc' = "csvText"
  /\ error' = appendError(error, MsgGeoParse)
  /\ geoJsonObj' = NullGeoJson
  /\ geoStatus' = "unparsable"
  /\ UNCHANGED <<csvStatus, csvData, featureHeap, decodedFeatures, rawData, geoJsonData,
                 selectedYear, availableYears, isLoading, svgMap>>
  /\ UNCHANGED <<pureVars, leVars, aggVars, pgVars>>

\* geoJsonRes.json() yields an object without features or with none
GeoJsonEmpty ==
  /\ mounted = "map"
  /\ pc = "geoJson"
  /\ pc' = "csvText"
  /\ error' = appendError(error, MsgGeoInvalid)
  /\ geoJsonObj' = NullGeoJson
  /\ geoStatus' = "empty"
  /\ UNCHANGED <<csvStatus, csvData, featureHeap, decodedFeatures, rawData, geoJsonData,
                 selectedYear, availableYears, isLoading, svgMap>>
  /\ UNCHANGED <<pureVars, leVars, aggVars, pgVars>>

\* geoJsonRes.json() yields an object whose features array is not empty
\* and holds an entry that is no feature object (null, say)
GeoJsonMalformed ==
  /\ mounted = "map"
  /\ pc = "geoJson"
  /\ pc' = "csvText"
  /\ geoJsonObj' = [isNull |-> FALSE, features |-> <<>>]
  /\ geoStatus' = "malformed"
  /\ UNCHANGED <<csvStatus, csvData, featureHeap, decodedFeatures, rawData, geoJsonData,
                 selectedYear, availableYears, isLoading, error, svgMap>>
  /\ UNCHANGED <<pureVars, leVars, aggVars, pgVars>>

\* geoJsonRes.json() yields a feature collection
GeoJsonDecoded(features) ==
  /\ mounted = "map"
  /\ pc = "geoJson"
  /\ pc' = "csvText"
  /\ featureHeap' = features
  /\ decodedFeatures' = features
  /\ geoJsonObj' = [isNull |-> FALSE, features |-> [i \in 1..Len(features) |-> i]]
  /\ geoStatus' = "decoded"
  /\ UNCHANGED <<csvStatus, csvData, rawData, geoJsonData, selectedYear, availableYears,
                 isLoading, error, svgMap>>
  /\ UNCHANGED <<pureVars, leVars, aggVars, pgVars>>

\* the complete callback of Papa.parse, the render it causes and the draw
\* effect of that render
PapaComplete(data, hasErrors) ==
  /\ mounted = "map"
  /\ pc = "csvText"
  /\ hasErrors \/ geoStatus # "malformed"
  /\ pc' = "done"
  /\ csvData' = data
  /\ csvStatus' = IF hasErrors THEN "parseErrors" ELSE "parsed"
  /\ isLoading' = FALSE
  /\ IF hasErrors
     THEN /\ error' = <<MsgCsvParse>>
          /\ UNCHANGED <<featureHeap, rawData, geoJsonData, selectedYear,
                         availableYears, svgMap>>
     ELSE LET rows == cleaned(data)
              years == uniqueYears(rows)
              year == IF Len(years) > 0 THEN years[1] ELSE selectedYear
              heap == IF geoJsonObj.isNull THEN featureHeap
                      ELSE [i \in 1..Len(featureHeap) |-> processFeature(featureHeap[i])]
              geo == IF geoJsonObj.isNull THEN geoJsonData ELSE geoJsonObj
          IN /\ rawData' = rows
             /\ availableYears' = years
             /\ selectedYear' = year
             /\ featureHeap' = heap
             /\ geoJsonData' = geo
             /\ UNCHANGED error
             /\ svgMap' = drawEffect(svgMap, heap, rows, geo, year, ViewOf(FALSE, error))
  /\ UNCHANGED <<geoStatus, decodedFeatures, geoJsonObj>>
  /\ UNCHANGED <<pureVars, leVars, aggVars, pgVars>>

\* the complete callback of Papa.parse on rows without parse errors, when the
\* renderer commits each state update of the callback on its own: the draw
\* effect runs after every commit that changed one of its dependencies, on
\* the view committed then, and not after the commit of isLoading
PapaCompleteUnbatched(data) ==
  /\ mounted = "map"
  /\ pc = "csvText"
  /\ geoStatus # "malformed"
  /\ pc' = "done"
  /\ csvData' = data
  /\ csvStatus' = "parsed"
  /\ LET rows == cleaned(data)
         years == uniqueYears(rows)
         year == IF Len(years) > 0 THEN years[1] ELSE selectedYear
         heap == IF geoJsonObj.isNull THEN featureHeap
                 ELSE [i \in 1..Len(featureHeap) |-> processFeature(featureHeap[i])]
         geo == IF geoJsonObj.isNull THEN geoJsonData ELSE geoJsonObj
         loadingView == ViewOf(TRUE, error)
         afterRawData == drawEffect(svgMap, featureHeap, rows, geoJsonData, selectedYear,
                                    loadingView)
         afterSelectedYear ==
           IF year = selectedYear THEN afterRawData
           ELSE drawEffect(afterRawData, featureHeap, rows, geoJsonData, year, loadingView)
         afterGeoJsonData ==
           IF geoJsonObj.isNull THEN afterSelectedYear
           ELSE drawEffect(afterSelectedYear, heap, rows, geo, year, loadingView)
     IN /\ rawData' = rows
        /\ availableYears' = years
        /\ selectedYear' = year
        /\ featureHeap' = heap
        /\ geoJsonData' = geo
        /\ svgMap' = afterGeoJsonData
  /\ isLoading' = FALSE
  /\ UNCHANGED <<error, geoStatus, decodedFeatures, geoJsonObj>>
  /\ UNCHANGED <<pureVars, leVars, aggVars, pgVars>>

\* the complete callback of Papa.parse on rows without parse errors when
\* geoJsonObj.features.map(...) throws on an entry: the rows and years are
\* set, the exception leaves Papa.parse and the then-callback, and the catch
\* handler runs; the draw effect finds no geoJsonData
PapaCompleteThrows(data) ==
  /\ mounted = "map"
  /\ pc = "csvText"
  /\ geoStatus = "malformed"
  /\ pc' = "done"
  /\ csvData' = data
  /\ csvStatus' = "parsed"
  /\ LET rows == cleaned(data)
         years == uniqueYears(rows)
         year == IF Len(years) > 0 THEN years[1] ELSE selectedYear
     IN /\ rawData' = rows
        /\ availableYears' = years
        /\ selectedYear' = year
        /\ svgMap' = drawEffect(svgMap, featureHeap, rows, geoJsonData, year,
                                ViewOf(FALSE, MsgFetch))
  /\ error' = MsgFetch
  /\ isLoading' = FALSE
  /\ UNCHANGED <<geoStatus, featureHeap, decodedFeatures, geoJsonObj, geoJsonData>>
  /\ UNCHANGED <<pureVars, leVars, aggVars, pgVars>>

\* a year dropdown that narrows the stored rows to the chosen year
SelectYearFiltering(year) ==
  /\ mounted = "map"
  /\ pc = "done"
  /\ View = "main"
  /\ Includes(availableYears, year)
  /\ selectedYear' = year
  /\ rawData' = LET isYear(d) == d.tahun = year IN SelectSeq(rawData, isYear)
  /\ svgMap' = IF year = selectedYear THEN svgMap
               ELSE drawEffect(svgMap, featureHeap, rawData', geoJsonData, year, View)
  /\ UNCHANGED <<pc, csvStatus, geoStatus, csvData, featureHeap, decodedFeatures,
                 geoJsonObj, geoJsonData, availableYears, isLoading, error>>
  /\ UNCHANGED <<pureVars, leVars, aggVars, pgVars>>

\* the year dropdown: onChange={(e) => setSelectedYear(e.target.value)}, the
\* render it causes and the draw effect of that render
SelectYear(year) ==
  /\ mounted = "map"
  /\ pc = "done"
  /\ View = "main"
  /\ Includes(availableYears, year)
  /\ selectedYear' = year
  /\ svgMap' = IF year = selectedYear THEN svgMap
               ELSE drawEffect(svgMap, featureHeap, rawData, geoJsonData, year, View)
  /\ UNCHANGED <<pc, csvStatus, geoStatus, csvData, featureHeap, decodedFeatures,
                 geoJsonObj, rawData, geoJsonData, availableYears, isLoading, error>>
  /\ UNCHANGED <<pureVars, leVars, aggVars, pgVars>>



Next ==
  \/ Mount
  \/ \E which \in {"csv", "geo"} : FetchReject(which)
  \/ \E csvOk \in BOOLEAN, geoOk \in BOOLEAN : FetchResolve(csvOk, geoOk)
  \/ GeoJsonUnparsable
  \/ GeoJsonEmpty
  \/ GeoJsonMalformed
  \/ \E features \in FeatureCollections : GeoJsonDecoded(features)
  \/ \E data \in CsvFiles, hasErrors \in BOOLEAN : PapaComplete(data, hasErrors)
  \/ \E data \in CsvFiles : PapaCompleteUnbatched(data)
  \/ \E data \in CsvFiles : PapaCompleteThrows(data)
  \/ \E year \in Years : SelectYear(year)

\* the files Papa.parse hands over where progress is checked
LoadCsvFiles == UNION { [1..n -> CsvRowUniverse] : n \in 0..MaxLoadRows }

\* the steps of the load effect, each enabled only until the effect is done:
\* they happen without the user
LoadStep ==
  /\ mounted = "map"
  /\ pc # "done"
  /\ \/ Mount
     \/ \E which \in {"csv", "geo"} : FetchReject(which)
     \/ \E csvOk \in BOOLEAN, geoOk \in BOOLEAN : FetchResolve(csvOk, geoOk)
     \/ GeoJsonUnparsable
     \/ GeoJsonEmpty
     \/ GeoJsonMalformed
     \/ \E features \in FeatureCollections : GeoJsonDecoded(features)
     \/ \E data \in LoadCsvFiles, hasErrors \in BOOLEAN : PapaComplete(data, hasErrors)
     \/ \E data \in LoadCsvFiles : PapaCompleteUnbatched(data)
     \/ \E data \in LoadCsvFiles : PapaCompleteThrows(data)

\* ------------------------------------------------------------------------
\* LifeExpectancy page
\* ------------------------------------------------------------------------
\* characters in the order of their code units
CharOrder == <<"\t", " ", "+", "-", ".", "/">> \o Digits \o UpperCase \o LowerCase

CodeOf == [c \in {CharOrder[i] : i \in 1..Len(CharOrder)} |-> IndexOf(c, CharOrder)]

CharCode(c) == CodeOf[c]

\* the default comparator of Array.prototype.sort on two strings: -1, 0 or 1
RECURSIVE compareStrings(_, _)
compareStrings(a, b) ==
  IF a = <<>> /\ b = <<>> THEN 0
  ELSE IF a = <<>> THEN -1
  ELSE IF b = <<>> THEN 1
  ELSE IF Head(a) = Head(b) THEN compareStrings(Tail(a), Tail(b))
  ELSE IF CharCode(Head(a)) < CharCode(Head(b)) THEN -1 ELSE 1

\* String.prototype.includes
includes(str, part) ==
  \E i \in 1..(Len(str) - Len(part) + 1) : SubSeq(str, i, i + Len(part) - 1) = part

LeRow(year, name, ahh) ==
  [ tahun |-> year, nama_kabupaten_kota |-> name, angka_harapan_hidup |-> ahh ]

\* the rows a response body is made of
LeRowUniverse ==
  { LeRow(Y2020, KOTA \o SP \o BANDUNG, <<"7", "2", ".", "5">>),
    LeRow(Y2020, BANDUNG, <<"7", "0">>),
    LeRow(Y2021 \o SP, GARUT, <<"7", "1", ".", "2", "0">>),
    LeRow(Y2021, BANDUNG, InfinityWord),
    LeRow(Y2020, GARUT, <<"N", "/", "A">>),
    LeRow(Undefined, Undefined, Undefined) }

LeBodies == UNION { [1..n -> LeRowUniverse] : n \in 0..MaxRows }

\* the object the map builds from one parsed row
formatRow(r) ==
  [ tahun |-> optTrim(r.tahun),
    daerah |-> optTrim(r.nama_kabupaten_kota),
    AHH |-> parseFloat(optTrim(r.angka_harapan_hidup)),
    tipe |-> IF r.nama_kabupaten_kota # Undefined
                /\ includes(toLowerCase(r.nama_kabupaten_kota), <<"k", "o", "t", "a">>)
             THEN "Kota" ELSE "Kabupaten" ]

keepFormatted(r) == Truthy(r.tahun) /\ Truthy(r.daerah) /\ ~isNaN(r.AHH)

\* const formatted = data.map(...).SelectSeq(...)
formatted(data) == SelectSeq([i \in 1..Len(data) |-> formatRow(data[i])], keepFormatted)

\* the default comparator on the elements of arr
defaultCompare(arr) ==
  [p \in Elements(arr) \X Elements(arr) |-> compareStrings(p[1], p[2])]

\* [...new Set(formatted.map((r) => r.tahun))].sort()
leYears(rows) ==
  LET years == unique([i \in 1..Len(rows) |-> rows[i].tahun])
  IN sort(years, defaultCompare(years))

\* data.SelectSeq((r) => r.tahun === year)
filteredAll == LET isYear(r) == r.tahun = leYear IN SelectSeq(leData, isYear)

\* the rows handed to the bar chart (the avg attached to each is left out)
display ==
  LET isType(r) == regionType = "Semua" \/ r.tipe = regionType
      shown == SelectSeq(filteredAll, isType)
      byAHH == [p \in Elements(shown) \X Elements(shown) |-> SignOfDiff(p[2].AHH, p[1].AHH)]
  IN sort(shown, byAHH)

\* the component has a single return: the chart section
LeView == "chart"

InitLe ==
  /\ lePc = "init"
  /\ leStatus = "none"
  /\ leData = <<>>
  /\ leYearOptions = <<>>
  /\ leYear = <<>>
  /\ regionType = "Semua"

\* mount: the effect starts the fetch
LeMount ==
  /\ lePc = "init"
  /\ lePc' = "fetching"
  /\ UNCHANGED <<leStatus, leData, leYearOptions, leYear, regionType>>
  /\ UNCHANGED <<pureVars, mapVars, aggVars, pgVars>>

\* the fetch rejects: the chain has no catch, nothing is set
LeFetchReject ==
  /\ lePc = "fetching"
  /\ lePc' = "rejected"
  /\ leStatus' = "rejected"
  /\ UNCHANGED <<leData, leYearOptions, leYear, regionType>>
  /\ UNCHANGED <<pureVars, mapVars, aggVars, pgVars>>

\* the fetch resolves, whatever the status: r.text(), Papa.parse, complete
LeFetchResolve(ok, body) ==
  /\ lePc = "fetching"
  /\ lePc' = "done"
  /\ leStatus' = IF ok THEN "ok" ELSE "notOk"
  /\ LET rows == formatted(body)
         yrs == leYears(rows)
     IN /\ leYearOptions' = yrs
        /\ leYear' = IF Len(yrs) > 0 THEN yrs[1] ELSE Undefined
        /\ leData' = rows
  /\ UNCHANGED regionType
  /\ UNCHANGED <<pureVars, mapVars, aggVars, pgVars>>

\* the year dropdown
LeSetYear(y) ==
  /\ Includes(leYearOptions, y)
  /\ leYear' = y
  /\ UNCHANGED <<lePc, leStatus, leData, leYearOptions, regionType>>
  /\ UNCHANGED <<pureVars, mapVars, aggVars, pgVars>>

\* the three region-type buttons
LeSetRegionType(t) ==
  /\ regionType' = t
  /\ UNCHANGED <<lePc, leStatus, leData, leYearOptions, leYear>>
  /\ UNCHANGED <<pureVars, mapVars, aggVars, pgVars>>



NextLePage ==
  \/ LeMount
  \/ LeFetchReject
  \/ \E ok \in BOOLEAN, body \in LeBodies : LeFetchResolve(ok, body)
  \/ \E y \in Years : LeSetYear(y)
  \/ \E t \in {"Semua", "Kota", "Kabupaten"} : LeSetRegionType(t)

\* ------------------------------------------------------------------------
\* The cleaning functions applied to one raw string
\* ------------------------------------------------------------------------
\* no file is being aggregated
\* the state of a page with a load effect of its own that is not mounted
PageNotMounted ==
  /\ pgPc = "init"
  /\ pgData = [first |-> <<>>, second |-> <<>>]
  /\ pgLoading = TRUE
  /\ pgError = Null
  /\ pgRaw = <<>>
  /\ pgOptions = <<>>
  /\ pgSelected = <<>>
  /\ pgType = "Semua"

\* no page of the dashboard is mounted
PagesIdle == mounted = "none" /\ PageNotMounted

AggIdle ==
  /\ aggPage = "none"
  /\ aggData = <<>>
  /\ aggRows = <<>>
  /\ aggSel = <<>>
  /\ aggOut = <<>>
  /\ aggPc = "idle"

PureIdle ==
  /\ pureKind = "none"
  /\ purePieces = <<>>
  /\ pureIn = <<>>
  /\ pureOut = <<>>
  /\ purePc = "idle"

InitPure ==
  /\ pureKind \in {"name", "field"}
  /\ purePieces \in IF pureKind = "name"
                    THEN PieceSeqs(NamePieces, MaxPieces)
                    ELSE PieceSeqs(FieldPieces, MaxFieldPieces)
  /\ pureIn = Concat(purePieces)
  /\ pureOut = <<>>
  /\ purePc = "raw"
  /\ InitMap
  /\ InitLe
  /\ AggIdle
  /\ PagesIdle

\* the name column of one row through the cleaning map
NormalizeName ==
  /\ pureKind = "name"
  /\ purePc = "raw"
  /\ pureOut' = normalizeKey(pureIn)
  /\ purePc' = "once"
  /\ UNCHANGED <<pureKind, purePieces, pureIn, mapVars, leVars, aggVars, pgVars>>

\* the cleaned name fed through the same cleaning again
NormalizeAgain ==
  /\ pureKind = "name"
  /\ purePc = "once"
  /\ pureOut' = normalizeKey(pureOut)
  /\ purePc' = "twice"
  /\ UNCHANGED <<pureKind, purePieces, pureIn, mapVars, leVars, aggVars, pgVars>>

\* the count column of one row through the cleaning map (parseInt)
ParseIntField ==
  /\ pureKind = "field"
  /\ purePc = "raw"
  /\ pureOut' = parseInt(pureIn)
  /\ purePc' = "int"
  /\ UNCHANGED <<pureKind, purePieces, pureIn, mapVars, leVars, aggVars, pgVars>>

\* the life-expectancy column of one row through the cleaning map (parseFloat)
ParseFloatField ==
  /\ pureKind = "field"
  /\ purePc = "raw"
  /\ pureOut' = parseFloat(pureIn)
  /\ purePc' = "float"
  /\ UNCHANGED <<pureKind, purePieces, pureIn, mapVars, leVars, aggVars, pgVars>>

NextPure == NormalizeName \/ NormalizeAgain \/ ParseIntField \/ ParseFloatField

SpecPure == InitPure /\ [][NextPure]_vars

\* ------------------------------------------------------------------------
\* Facility composition page: cleaning and grouping
\* ------------------------------------------------------------------------
SEMUA == <<"S", "E", "M", "U", "A">>

\* the object the cleaning map builds from one parsed CSV row
facilityCleanRow(row) ==
  [ tahun |-> optTrim(row.tahun),
    kota |-> optTrim(row.nama_kabupaten_kota),
    jenis |-> optTrim(row.jenis_faskes),
    jumlah |-> parseInt(row.jumlah_faskes) ]

facilityKeep(r) == Truthy(r.kota) /\ Truthy(r.jenis) /\ ~isNaN(r.jumlah)

\* const cleaned = data.map(...).filter(...)
facilityCleaned(data) ==
  SelectSeq([i \in 1..Len(data) |-> facilityCleanRow(data[i])], facilityKeep)

\* rawData.filter((d) => selectedRegion === "SEMUA" ? true : d.kota === selectedRegion)
filtered(rows, selectedRegion) ==
  LET keep(d) == IF selectedRegion = SEMUA THEN TRUE ELSE d.kota = selectedRegion
  IN SelectSeq(rows, keep)

\* the position of the entry of an object, kept in insertion order, whose
\* field holds the key; 0 when the object has no such property
IndexOfKey(entries, field, key) ==
  IF \E i \in 1..Len(entries) : entries[i][field] = key
  THEN CHOOSE i \in 1..Len(entries) : entries[i][field] = key
  ELSE 0

\* a reducer of grouped that starts the slice anew for every row
groupedReducerRecreate(acc, curr) ==
  LET key == curr.jenis
      created == IF IndexOfKey(acc, "id", key) = 0
                 THEN Append(acc, [id |-> key, label |-> key, value |-> Num(0)])
                 ELSE acc
      at == IndexOfKey(created, "id", key)
  IN [created EXCEPT ![at].value = curr.jumlah]

\* the reducer of grouped: the slice of curr.jenis is created with value 0
\* when acc has none, then curr.jumlah is added to its value
groupedReducer(acc, curr) ==
  LET key == curr.jenis
      created == IF IndexOfKey(acc, "id", key) = 0
                 THEN Append(acc, [id |-> key, label |-> key, value |-> Num(0)])
                 ELSE acc
      at == IndexOfKey(created, "id", key)
  IN [created EXCEPT ![at].value = Add(created[at].value, curr.jumlah)]

\* Object.values(filtered.reduce(..., {})): the slices in insertion order
grouped(rows) ==
  LET acc[i \in 0..Len(rows)] ==
        IF i = 0 THEN <<>> ELSE groupedReducer(acc[i - 1], rows[i])
  IN acc[Len(rows)]

\* ------------------------------------------------------------------------
\* Immunization page: cleaning and the per-region totals of a year
\* ------------------------------------------------------------------------
\* the object the formatting map builds from one parsed CSV row
imuFormatRow(row) ==
  [ tahun |-> optTrim(row.tahun),
    daerah |-> optTrim(row.nama_kabupaten_kota),
    jumlah_bayi |-> parseInt(row.jumlah_bayi),
    jenis_kelamin |-> optTrim(row.jenis_kelamin),
    tipe |-> IF row.nama_kabupaten_kota # Undefined
                /\ includes(toLowerCase(row.nama_kabupaten_kota), <<"k", "o", "t", "a">>)
             THEN "Kota" ELSE "Kabupaten",
    provinsi |-> optTrim(row.nama_provinsi) ]

imuKeep(r) ==
  /\ r.provinsi = JAWA_BARAT
  /\ Truthy(r.tahun)
  /\ Truthy(r.daerah)
  /\ ~isNaN(r.jumlah_bayi)
  /\ SignOfDiff(r.jumlah_bayi, Num(0)) >= 0

\* const formatted = data.map(...).filter(...)
imuFormatted(data) ==
  SelectSeq([i \in 1..Len(data) |-> imuFormatRow(data[i])], imuKeep)

\* the reducer of aggregatedByDaerah
daerahReducer(acc, curr) ==
  LET key == curr.daerah
      created == IF IndexOfKey(acc, "daerah", key) = 0
                 THEN Append(acc, [daerah |-> curr.daerah, total_imunisasi |-> Num(0),
                                   tipe |-> curr.tipe])
                 ELSE acc
      at == IndexOfKey(created, "daerah", key)
  IN [created EXCEPT ![at].total_imunisasi = Add(created[at].total_imunisasi, curr.jumlah_bayi)]

\* Object.values(aggregatedByDaerah) for the selected year
aggregatedByDaerah(rows, year) ==
  LET isYear(r) == r.tahun = year
      filteredByYear == SelectSeq(rows, isYear)
      acc[i \in 0..Len(filteredByYear)] ==
        IF i = 0 THEN <<>> ELSE daerahReducer(acc[i - 1], filteredByYear[i])
  IN acc[Len(filteredByYear)]

\* ------------------------------------------------------------------------
\* Infant mortality page: cleaning and the series of the line chart
\* ------------------------------------------------------------------------
BAYI == <<"B", "A", "Y", "I">>

\* const years = ["2018", ..., "2023"]
targetYears ==
  << <<"2", "0", "1", "8">>, <<"2", "0", "1", "9">>, <<"2", "0", "2", "0">>,
     <<"2", "0", "2", "1">>, <<"2", "0", "2", "2">>, <<"2", "0", "2", "3">> >>

\* the object the cleaning map builds from one parsed CSV row
infantCleanRow(row) ==
  [ nama_provinsi |-> optTrim(row.nama_provinsi),
    nama_kabupaten_kota |-> optTrim(row.nama_kabupaten_kota),
    kategori_bayi |-> optTrim(row.kategori_bayi),
    jumlah_kematian |-> parseInt(row.jumlah_kematian),
    tahun |-> optTrim(row.tahun) ]

infantKeep(r) ==
  /\ r.nama_provinsi = JAWA_BARAT
  /\ r.kategori_bayi = BAYI
  /\ ~isNaN(r.jumlah_kematian)
  /\ Truthy(r.tahun)
  /\ Includes(targetYears, r.tahun)

\* const cleaned = data.map(...).filter(...)
infantCleaned(data) ==
  SelectSeq([i \in 1..Len(data) |-> infantCleanRow(data[i])], infantKeep)

\* rows.reduce((sum, current) => sum + current.jumlah_kematian, 0)
sumKematian(rows) ==
  LET acc[i \in 0..Len(rows)] ==
        IF i = 0 THEN Num(0) ELSE Add(acc[i - 1], rows[i].jumlah_kematian)
  IN acc[Len(rows)]

TotalJawaBarat == <<"T", "o", "t", "a", "l", " ", "J", "a", "w", "a", " ", "B", "a", "r", "a", "t">>

\* the chartData memo
chartData(rows, selectedKotas) ==
  IF Len(selectedKotas) = 0 \/ Includes(selectedKotas, SEMUA)
  THEN LET ofYear(year) == LET keep(d) == d.tahun = year IN SelectSeq(rows, keep)
           yearlyTotals == [i \in 1..Len(targetYears) |->
                              [x |-> targetYears[i], y |-> sumKematian(ofYear(targetYears[i]))]]
       IN << [id |-> TotalJawaBarat, data |-> yearlyTotals] >>
  ELSE LET ofKotaYear(kota, year) ==
             LET keep(d) == d.nama_kabupaten_kota = kota /\ d.tahun = year
             IN SelectSeq(rows, keep)
           yearlyData(kota) == [i \in 1..Len(targetYears) |->
                                  [x |-> targetYears[i],
                                   y |-> sumKematian(ofKotaYear(kota, targetYears[i]))]]
       IN [k \in 1..Len(selectedKotas) |->
             [id |-> selectedKotas[k], data |-> yearlyData(selectedKotas[k])]]

\* ------------------------------------------------------------------------
\* The pages' cleaning and aggregation applied to parsed files
\* ------------------------------------------------------------------------
\* the rows of the maternal mortality CSV
AggRowUniverse ==
  { CsvRow(KABUPATEN \o SP \o BANDUNG, <<"1", "0">>, Y2020, JAWA_BARAT),
    CsvRow(KABUPATEN \o SP \o BANDUNG, <<"5">>, Y2020, JAWA_BARAT),
    CsvRow(KOTA \o SP \o BANDUNG, <<"7">>, Y2020, JAWA_BARAT),
    CsvRow(BANDUNG, <<"N", "/", "A">>, Y2020, JAWA_BARAT),
    CsvRow(BANDUNG, <<"2">>, Y2021, JAWA_BARAT),
    CsvRow(GARUT, <<"0">>, Y2021, JAWA_BARAT),
    CsvRow(Undefined, <<"4">>, Y2020, JAWA_BARAT),
    CsvRow(<<>>, <<"4">>, Y2020, JAWA_BARAT),
    CsvRow(SP \o <<"\t">>, <<"4">>, Y2020, JAWA_BARAT),
    CsvRow(toLowerCase(KABUPATEN) \o SP, <<"4">>, Y2020, JAWA_BARAT) }

PKM == <<"P", "K", "M">>

RS == <<"R", "S">>

FacilityRow(year, name, jenis, jumlah) ==
  [ tahun |-> year, nama_kabupaten_kota |-> name, jenis_faskes |-> jenis,
    jumlah_faskes |-> jumlah ]

\* the rows of the health facility CSV
FacilityRowUniverse ==
  { FacilityRow(Y2020, KOTA \o SP \o BANDUNG, PKM, <<"3">>),
    FacilityRow(Y2020, GARUT, PKM, <<"2">>),
    FacilityRow(Y2020, GARUT, RS, <<"1">>),
    FacilityRow(Y2021, SP \o KOTA \o SP \o BANDUNG, RS \o SP, <<"4">>),
    FacilityRow(Y2020, GARUT, RS, <<"x">>) }

ImuRow(year, name, jumlah, kelamin, prov) ==
  [ tahun |-> year, nama_kabupaten_kota |-> name, jumlah_bayi |-> jumlah,
    jenis_kelamin |-> kelamin, nama_provinsi |-> prov ]

\* the rows of the immunization CSV
ImuRowUniverse ==
  { ImuRow(Y2020, KOTA \o SP \o BANDUNG, <<"1", "0">>, <<"L">>, JAWA_BARAT),
    ImuRow(Y2020, KOTA \o SP \o BANDUNG \o SP, <<"5">>, <<"P">>, JAWA_BARAT),
    ImuRow(Y2020, GARUT, <<"7">>, <<"L">>, JAWA_BARAT),
    ImuRow(Y2021, GARUT, <<"0">>, <<"L">>, JAWA_BARAT),
    ImuRow(Y2020, GARUT, <<"-", "1">>, <<"P">>, JAWA_BARAT) }

InfantRow(name, kategori, jumlah, year, prov) ==
  [ nama_kabupaten_kota |-> name, kategori_bayi |-> kategori, jumlah_kematian |-> jumlah,
    tahun |-> year, nama_provinsi |-> prov ]

\* the rows of the infant mortality CSV
InfantRowUniverse ==
  { InfantRow(BANDUNG, BAYI, <<"4">>, Y2020, JAWA_BARAT),
    InfantRow(GARUT, BAYI, <<"6">>, Y2020, JAWA_BARAT),
    InfantRow(BANDUNG, BAYI, <<"1">>, Y2021, JAWA_BARAT),
    InfantRow(BANDUNG, <<"N", "E", "O">>, <<"9">>, Y2020, JAWA_BARAT),
    InfantRow(GARUT, BAYI, <<"2">>, <<"2", "0", "1", "7">>, JAWA_BARAT) }

\* the files Papa.parse can hand over
FilesOf(rows) == UNION { [1..n -> rows] : n \in 0..MaxAggRows }

\* the values a region dropdown can carry
Regions == { SEMUA, KOTA \o SP \o BANDUNG, GARUT }

\* the values selectedKotas can hold
KotaSelections ==
  { <<SEMUA>>, <<>>, <<BANDUNG>>, <<GARUT>>, <<BANDUNG, GARUT>>, <<GARUT, BANDUNG>> }

InitAgg ==
  /\ aggPage \in {"map", "facility", "imu", "infant"}
  /\ aggData \in CASE aggPage = "map" -> FilesOf(AggRowUniverse)
                   [] aggPage = "facility" -> FilesOf(FacilityRowUniverse)
                   [] aggPage = "imu" -> FilesOf(ImuRowUniverse)
                   [] aggPage = "infant" -> FilesOf(InfantRowUniverse)
  /\ aggRows = <<>>
  /\ aggSel = <<>>
  /\ aggOut = <<>>
  /\ aggPc = "parsed"
  /\ PureIdle
  /\ InitMap
  /\ InitLe
  /\ PagesIdle

\* the choropleth's complete callback: setRawData(cleaned)
MapCleaned ==
  /\ aggPage = "map" /\ aggPc = "parsed"
  /\ aggRows' = cleaned(aggData)
  /\ aggPc' = "cleaned"
  /\ UNCHANGED <<aggPage, aggData, aggSel, aggOut>>
  /\ UNCHANGED <<pureVars, mapVars, leVars, pgVars>>

\* the choropleth's draw effect up to aggregatedData, for a year of the dropdown
MapAggregated(year) ==
  /\ aggPage = "map" /\ aggPc = "cleaned"
  /\ Includes(uniqueYears(aggRows), year)
  /\ aggSel' = year
  /\ aggOut' = aggregatedData(aggRows, year)
  /\ aggPc' = "reduced"
  /\ UNCHANGED <<aggPage, aggData, aggRows>>
  /\ UNCHANGED <<pureVars, mapVars, leVars, pgVars>>

\* the facility page's complete callback: setRawData(cleaned)
FacilityCleaned ==
  /\ aggPage = "facility" /\ aggPc = "parsed"
  /\ aggRows' = facilityCleaned(aggData)
  /\ aggPc' = "cleaned"
  /\ UNCHANGED <<aggPage, aggData, aggSel, aggOut>>
  /\ UNCHANGED <<pureVars, mapVars, leVars, pgVars>>

\* the facility page's render for a region of the dropdown
FacilityGrouped(region) ==
  /\ aggPage = "facility" /\ aggPc = "cleaned"
  /\ region = SEMUA \/ \E i \in 1..Len(aggRows) : aggRows[i].kota = region
  /\ aggSel' = region
  /\ aggOut' = grouped(filtered(aggRows, region))
  /\ aggPc' = "reduced"
  /\ UNCHANGED <<aggPage, aggData, aggRows>>
  /\ UNCHANGED <<pureVars, mapVars, leVars, pgVars>>

\* the immunization page's complete callback: setRawData(formatted)
ImuFormatted ==
  /\ aggPage = "imu" /\ aggPc = "parsed"
  /\ aggRows' = imuFormatted(aggData)
  /\ aggPc' = "cleaned"
  /\ UNCHANGED <<aggPage, aggData, aggSel, aggOut>>
  /\ UNCHANGED <<pureVars, mapVars, leVars, pgVars>>

\* the immunization page's displayData up to aggregatedByDaerah
ImuAggregated(year) ==
  /\ aggPage = "imu" /\ aggPc = "cleaned"
  /\ \E i \in 1..Len(aggRows) : aggRows[i].tahun = year
  /\ aggSel' = year
  /\ aggOut' = aggregatedByDaerah(aggRows, year)
  /\ aggPc' = "reduced"
  /\ UNCHANGED <<aggPage, aggData, aggRows>>
  /\ UNCHANGED <<pureVars, mapVars, leVars, pgVars>>

\* the infant mortality page's complete callback: setRawData(cleaned)
InfantCleaned ==
  /\ aggPage = "infant" /\ aggPc = "parsed"
  /\ aggRows' = infantCleaned(aggData)
  /\ aggPc' = "cleaned"
  /\ UNCHANGED <<aggPage, aggData, aggSel, aggOut>>
  /\ UNCHANGED <<pureVars, mapVars, leVars, pgVars>>

\* the infant mortality page's chartData for a selection of listed cities
InfantCharted(selectedKotas) ==
  /\ aggPage = "infant" /\ aggPc = "cleaned"
  /\ \A k \in 1..Len(selectedKotas) :
       \/ selectedKotas[k] = SEMUA
       \/ \E i \in 1..Len(aggRows) : aggRows[i].nama_kabupaten_kota = selectedKotas[k]
  /\ aggSel' = selectedKotas
  /\ aggOut' = chartData(aggRows, selectedKotas)
  /\ aggPc' = "reduced"
  /\ UNCHANGED <<aggPage, aggData, aggRows>>
  /\ UNCHANGED <<pureVars, mapVars, leVars, pgVars>>

NextAgg ==
  \/ MapCleaned
  \/ \E year \in Years : MapAggregated(year)
  \/ FacilityCleaned
  \/ \E region \in Regions : FacilityGrouped(region)
  \/ ImuFormatted
  \/ \E year \in Years : ImuAggregated(year)
  \/ InfantCleaned
  \/ \E selectedKotas \in KotaSelections : InfantCharted(selectedKotas)

SpecAgg == InitAgg /\ [][NextAgg]_vars

\* ------------------------------------------------------------------------
\* Correlation page: cleaning of the two files and their merge
\* ------------------------------------------------------------------------
\* parseFacility: const cleaned = data.map(...).filter(...)
facilities(data) ==
  LET cleanRow2(row) == [ kota |-> optTrim(row.nama_kabupaten_kota),
                          jenis |-> optTrim(row.jenis_faskes),
                          jumlah |-> parseInt(row.jumlah_faskes),
                          tahun |-> optTrim(row.tahun),
                          provinsi |-> optTrim(row.nama_provinsi) ]
      keep(r) == r.provinsi = JAWA_BARAT /\ Truthy(r.kota) /\ ~isNaN(r.jumlah)
                 /\ Truthy(r.tahun)
  IN SelectSeq([i \in 1..Len(data) |-> cleanRow2(data[i])], keep)

\* parseLifeExpectancy: const cleaned = data.map(...).filter(...)
lifeExpectancies(data) ==
  LET cleanRow2(row) == [ kota |-> optTrim(row.nama_kabupaten_kota),
                          angka_harapan_hidup |-> parseFloat(row.angka_harapan_hidup),
                          tahun |-> optTrim(row.tahun),
                          provinsi |-> optTrim(row.nama_provinsi) ]
      keep(r) == r.provinsi = JAWA_BARAT /\ Truthy(r.kota)
                 /\ ~isNaN(r.angka_harapan_hidup) /\ Truthy(r.tahun)
  IN SelectSeq([i \in 1..Len(data) |-> cleanRow2(data[i])], keep)

\* the reducer of aggregatedFacilities: the key is `${curr.kota}-${curr.tahun}`
facilityReducer(acc, curr) ==
  LET key == curr.kota \o <<"-">> \o curr.tahun
      created == IF IndexOfKey(acc, "key", key) = 0
                 THEN Append(acc, [key |-> key, kota |-> curr.kota, tahun |-> curr.tahun,
                                   total_faskes |-> Num(0)])
                 ELSE acc
      at == IndexOfKey(created, "key", key)
  IN [created EXCEPT ![at].total_faskes = Add(created[at].total_faskes, curr.jumlah)]

\* Object.values(aggregatedFacilities): the entries in insertion order (no
\* key is an array index: each holds a "-")
aggregatedFacilities(rows) ==
  LET acc[i \in 0..Len(rows)] ==
        IF i = 0 THEN <<>> ELSE facilityReducer(acc[i - 1], rows[i])
  IN acc[Len(rows)]

\* lifeExpectancies.find(...): the position of the first row of the entry's
\* city and year, 0 when there is none
matchingLifeExpectancy(les, faskesEntry) ==
  LET hits == { j \in 1..Len(les) : les[j].kota = faskesEntry.kota
                                    /\ les[j].tahun = faskesEntry.tahun }
  IN IF hits = {} THEN 0 ELSE CHOOSE j \in hits : \A k \in hits : j <= k

\* the merged array after the forEach
merged(rows, les) ==
  LET entries == aggregatedFacilities(rows)
      acc[i \in 0..Len(entries)] ==
        IF i = 0 THEN <<>>
        ELSE LET at == matchingLifeExpectancy(les, entries[i])
             IN IF at = 0 THEN acc[i - 1]
                ELSE Append(acc[i - 1],
                            [ kota |-> entries[i].kota,
                              tahun |-> entries[i].tahun,
                              total_faskes |-> entries[i].total_faskes,
                              angka_harapan_hidup |-> les[at].angka_harapan_hidup ])
  IN acc[Len(entries)]

\* Array.from(uniqueYears).sort()
sortedYears(points) ==
  LET years == unique([i \in 1..Len(points) |-> points[i].tahun])
  IN sort(years, defaultCompare(years))

\* the reducer of groupedByKota
kotaReducer(acc, curr) ==
  LET created == IF IndexOfKey(acc, "id", curr.kota) = 0
                 THEN Append(acc, [id |-> curr.kota, data |-> <<>>])
                 ELSE acc
      at == IndexOfKey(created, "id", curr.kota)
  IN [created EXCEPT ![at].data =
        Append(created[at].data, [ x |-> curr.total_faskes, y |-> curr.angka_harapan_hidup,
                                   kota |-> curr.kota, tahun |-> curr.tahun ])]

\* the chartData memo of the correlation page
correlationChartData(processedData, year) ==
  IF Len(processedData) = 0 \/ ~Truthy(year) THEN <<>>
  ELSE LET isYear(d) == d.tahun = year
           filteredByYear == SelectSeq(processedData, isYear)
           acc[i \in 0..Len(filteredByYear)] ==
             IF i = 0 THEN <<>> ELSE kotaReducer(acc[i - 1], filteredByYear[i])
       IN acc[Len(filteredByYear)]


\* ------------------------------------------------------------------------
\* The four pages with one load effect each: inputs
\* ------------------------------------------------------------------------
Y999 == <<"9", "9", "9">>

\* a year column that holds a "-"
Y1_2020 == <<"1", "-">> \o Y2020

\* a region name that holds a "-"
BANDUNG_1 == BANDUNG \o <<"-", "1">>

\* the rows of the immunization CSV
PageImuRows ==
  { ImuRow(Y2020, KOTA \o SP \o BANDUNG, <<"1", "0">>, <<"L">>, JAWA_BARAT),
    ImuRow(Y2020, KOTA \o SP \o BANDUNG \o SP, <<"5">>, <<"P">>, JAWA_BARAT),
    ImuRow(Y2020, GARUT, <<"7">>, <<"L">>, JAWA_BARAT),
    ImuRow(Y999, GARUT, <<"3">>, <<"L">>, JAWA_BARAT),
    ImuRow(Y2020, GARUT, <<"-", "1">>, <<"P">>, JAWA_BARAT) }

\* the rows of the infant mortality CSV
PageInfantRows ==
  { InfantRow(BANDUNG, BAYI, <<"0">>, Y2020, JAWA_BARAT),
    InfantRow(GARUT, BAYI, <<"6">>, Y2020, JAWA_BARAT),
    InfantRow(BANDUNG, BAYI, <<"1">>, Y2021, JAWA_BARAT),
    InfantRow(GARUT, BAYI, <<"2">>, <<"2", "0", "1", "7">>, JAWA_BARAT) }

CorrFacilityRow(name, jenis, jumlah, year, prov) ==
  [ nama_kabupaten_kota |-> name, jenis_faskes |-> jenis, jumlah_faskes |-> jumlah,
    tahun |-> year, nama_provinsi |-> prov ]

\* the rows of the health facility CSV, as the correlation page reads it
CorrFacilityRows ==
  { CorrFacilityRow(BANDUNG_1, PKM, <<"3">>, Y2020, JAWA_BARAT),
    CorrFacilityRow(BANDUNG, PKM, <<"4">>, Y1_2020, JAWA_BARAT),
    CorrFacilityRow(BANDUNG, RS, <<"5">>, Y2020, JAWA_BARAT),
    CorrFacilityRow(BANDUNG, PKM, <<"1">>, Y999, JAWA_BARAT),
    CorrFacilityRow(GARUT, PKM, <<"x">>, Y2020, JAWA_BARAT) }

CorrLeRow(name, ahh, year, prov) ==
  [ nama_kabupaten_kota |-> name, angka_harapan_hidup |-> ahh, tahun |-> year,
    nama_provinsi |-> prov ]

\* the rows of the life expectancy CSV, as the correlation page reads it
CorrLeRows ==
  { CorrLeRow(BANDUNG_1, <<"7", "0", ".", "5">>, Y2020, JAWA_BARAT),
    CorrLeRow(BANDUNG, <<"7", "1">>, Y1_2020, JAWA_BARAT),
    CorrLeRow(BANDUNG, <<"7", "2">>, Y2020, JAWA_BARAT),
    CorrLeRow(BANDUNG, <<"6", "9">>, Y999, JAWA_BARAT) }

\* the files Papa.parse can hand over to a page
PageFilesOf(rows) == UNION { [1..n -> rows] : n \in 0..MaxPageRows }

FacilityFiles == PageFilesOf(FacilityRowUniverse)

ImuFiles == PageFilesOf(PageImuRows)

InfantFiles == PageFilesOf(PageInfantRows)

CorrFacilityFiles == PageFilesOf(CorrFacilityRows)

CorrLeFiles == PageFilesOf(CorrLeRows)

\* the values a year dropdown can carry
PageYears == { Y2020, Y2021, Y999, Y1_2020 }

\* the values a checkbox of the city list can carry
Kotas == { SEMUA, BANDUNG, GARUT }

RegionTypes == { "Semua", "Kota", "Kabupaten" }

MsgLoadOrProcess == <<"Gagal memuat atau memproses data">>

\* ------------------------------------------------------------------------
\* The four pages with one load effect each: state machine
\* ------------------------------------------------------------------------
\* useState(...): the state of the mounted page after construction
InitPage ==
  /\ mounted \in {"facility", "imu", "corr", "infant"}
  /\ pgPc = "init"
  /\ pgData = [first |-> <<>>, second |-> <<>>]
  /\ pgLoading = TRUE
  /\ pgError = Null
  /\ pgRaw = <<>>
  /\ pgOptions = <<>>
  /\ pgSelected = CASE mounted = "facility" -> SEMUA
                    [] mounted = "infant" -> <<SEMUA>>
                    [] OTHER -> <<>>
  /\ pgType = "Semua"

\* the message the catch handler of the page's load effect puts into error
CatchMessage == IF mounted = "corr" THEN MsgLoadOrProcess ELSE MsgFetch

\* the page shows its chart section: neither the loading nor the error view
MainView == pgPc = "done" /\ ~pgLoading /\ pgError = Null

\* mount: the load effect starts the fetch (both fetches on the correlation page)
PageMount ==
  /\ mounted \in {"facility", "imu", "corr", "infant"}
  /\ pgPc = "init"
  /\ pgPc' = "fetching"
  /\ pgLoading' = TRUE
  /\ pgError' = Null
  /\ UNCHANGED <<mounted, pgData, pgRaw, pgOptions, pgSelected, pgType>>
  /\ UNCHANGED <<pureVars, mapVars, leVars, aggVars>>

\* a fetch rejects: the catch handler runs
PageFetchReject ==
  /\ pgPc = "fetching"
  /\ pgPc' = "done"
  /\ pgError' = CatchMessage
  /\ pgLoading' = FALSE
  /\ UNCHANGED <<mounted, pgData, pgRaw, pgOptions, pgSelected, pgType>>
  /\ UNCHANGED <<pureVars, mapVars, leVars, aggVars>>

\* a then-callback that throws on a response that is not ok and whose catch
\* handler leaves isLoading alone
PageFetchResolveStillLoading(ok) ==
  /\ mounted \in {"facility", "imu", "infant"}
  /\ pgPc = "fetching"
  /\ IF ok
     THEN /\ pgPc' = "text"
          /\ UNCHANGED <<pgError, pgLoading>>
     ELSE /\ pgPc' = "done"
          /\ pgError' = CatchMessage
          /\ UNCHANGED pgLoading
  /\ UNCHANGED <<mounted, pgData, pgRaw, pgOptions, pgSelected, pgType>>
  /\ UNCHANGED <<pureVars, mapVars, leVars, aggVars>>

\* the fetch of a page with one CSV resolves: r.ok is tested, r.text() awaited
PageFetchResolve(ok) ==
  /\ mounted \in {"facility", "imu", "infant"}
  /\ pgPc = "fetching"
  /\ IF ok
     THEN /\ pgPc' = "text"
          /\ UNCHANGED <<pgError, pgLoading>>
     ELSE /\ pgPc' = "done"
          /\ pgError' = CatchMessage
          /\ pgLoading' = FALSE
  /\ UNCHANGED <<mounted, pgData, pgRaw, pgOptions, pgSelected, pgType>>
  /\ UNCHANGED <<pureVars, mapVars, leVars, aggVars>>

\* both fetches of the correlation page resolve: both ok flags are tested,
\* both texts awaited
CorrelationFetchResolve(facilityOk, lifeExpectancyOk) ==
  /\ mounted = "corr"
  /\ pgPc = "fetching"
  /\ IF facilityOk /\ lifeExpectancyOk
     THEN /\ pgPc' = "text"
          /\ UNCHANGED <<pgError, pgLoading>>
     ELSE /\ pgPc' = "done"
          /\ pgError' = CatchMessage
          /\ pgLoading' = FALSE
  /\ UNCHANGED <<mounted, pgData, pgRaw, pgOptions, pgSelected, pgType>>
  /\ UNCHANGED <<pureVars, mapVars, leVars, aggVars>>

\* ["SEMUA", ...uniqueRegions] with uniqueRegions = [...new Set(names)].sort()
withSemua(names) ==
  LET uniqueNames == unique(names)
  IN <<SEMUA>> \o sort(uniqueNames, defaultCompare(uniqueNames))

\* the complete callback of the facility page
FacilityParseComplete(data, hasErrors) ==
  /\ mounted = "facility"
  /\ pgPc = "text"
  /\ pgPc' = "done"
  /\ pgData' = [first |-> data, second |-> <<>>]
  /\ pgLoading' = FALSE
  /\ IF hasErrors
     THEN /\ pgError' = <<MsgCsvParse>>
          /\ UNCHANGED <<pgRaw, pgOptions, pgSelected>>
     ELSE LET rows == facilityCleaned(data)
          IN /\ pgRaw' = rows
             /\ pgOptions' = withSemua([i \in 1..Len(rows) |-> rows[i].kota])
             /\ pgSelected' = SEMUA
             /\ UNCHANGED pgError
  /\ UNCHANGED <<mounted, pgType>>
  /\ UNCHANGED <<pureVars, mapVars, leVars, aggVars>>

\* [...new Set(formatted.map((r) => r.tahun))].sort() of the immunization page
imuUniqueYears(rows) ==
  LET years == unique([i \in 1..Len(rows) |-> rows[i].tahun])
  IN sort(years, defaultCompare(years))

\* a displayData that sorts from the lowest total to the highest
displayDataAscending(rows, year, type) ==
  IF Len(rows) = 0 \/ ~Truthy(year) THEN <<>>
  ELSE LET isType(r) == type = "Semua" \/ r.tipe = type
           processedForDisplay == SelectSeq(aggregatedByDaerah(rows, year), isType)
           byTotal == [p \in Elements(processedForDisplay) \X Elements(processedForDisplay) |->
                         SignOfDiff(p[1].total_imunisasi, p[2].total_imunisasi)]
       IN sort(processedForDisplay, byTotal)

\* the displayData memo: the regions' totals of the year, narrowed to the
\* region type unless it is "Semua", sorted by (a, b) => b.total_imunisasi -
\* a.total_imunisasi (no region name of the data is an array index, so
\* Object.values keeps insertion order)
displayData(rows, year, type) ==
  IF Len(rows) = 0 \/ ~Truthy(year) THEN <<>>
  ELSE LET isType(r) == type = "Semua" \/ r.tipe = type
           processedForDisplay == SelectSeq(aggregatedByDaerah(rows, year), isType)
           byTotal == [p \in Elements(processedForDisplay) \X Elements(processedForDisplay) |->
                         SignOfDiff(p[2].total_imunisasi, p[1].total_imunisasi)]
       IN sort(processedForDisplay, byTotal)

\* the complete callback of the immunization page
ImuParseComplete(data, hasErrors) ==
  /\ mounted = "imu"
  /\ pgPc = "text"
  /\ pgPc' = "done"
  /\ pgData' = [first |-> data, second |-> <<>>]
  /\ pgLoading' = FALSE
  /\ IF hasErrors
     THEN /\ pgError' = <<MsgCsvParse>>
          /\ UNCHANGED <<pgRaw, pgOptions, pgSelected>>
     ELSE LET rows == imuFormatted(data)
              years == imuUniqueYears(rows)
          IN /\ pgOptions' = years
             /\ pgSelected' = IF Len(years) > 0 THEN years[Len(years)] ELSE pgSelected
             /\ pgRaw' = rows
             /\ UNCHANGED pgError
  /\ UNCHANGED <<mounted, pgType>>
  /\ UNCHANGED <<pureVars, mapVars, leVars, aggVars>>

\* the complete callback of the infant mortality page
InfantParseComplete(data, hasErrors) ==
  /\ mounted = "infant"
  /\ pgPc = "text"
  /\ pgPc' = "done"
  /\ pgData' = [first |-> data, second |-> <<>>]
  /\ pgLoading' = FALSE
  /\ IF hasErrors
     THEN /\ pgError' = <<MsgCsvParse>>
          /\ UNCHANGED <<pgRaw, pgOptions>>
     ELSE LET rows == infantCleaned(data)
          IN /\ pgRaw' = rows
             /\ pgOptions' = withSemua([i \in 1..Len(rows) |-> rows[i].nama_kabupaten_kota])
             /\ UNCHANGED pgError
  /\ UNCHANGED <<mounted, pgSelected, pgType>>
  /\ UNCHANGED <<pureVars, mapVars, leVars, aggVars>>

\* the rest of the correlation page's then-callback, on files out of the two
\* sets: both files are parsed (an errors array that is not empty rejects
\* the promise of its file), the cleaned rows are merged and the states are
\* set
CorrelationParsed(facilityFiles, lifeExpectancyFiles) ==
  /\ mounted = "corr"
  /\ pgPc = "text"
  /\ pgPc' = "done"
  /\ pgLoading' = FALSE
  /\ \E facilityRows \in facilityFiles, lifeExpectancyRows \in lifeExpectancyFiles,
        facilityErrors \in BOOLEAN, lifeExpectancyErrors \in BOOLEAN :
       /\ pgData' = [first |-> facilityRows, second |-> lifeExpectancyRows]
       /\ IF facilityErrors \/ lifeExpectancyErrors
          THEN /\ pgError' = CatchMessage
               /\ UNCHANGED <<pgRaw, pgOptions, pgSelected>>
          ELSE LET points == merged(facilities(facilityRows),
                                    lifeExpectancies(lifeExpectancyRows))
                   years == sortedYears(points)
               IN /\ pgRaw' = points
                  /\ pgOptions' = years
                  /\ pgSelected' = IF Len(years) > 0 THEN years[Len(years)]
                                    ELSE pgSelected
                  /\ UNCHANGED pgError
  /\ UNCHANGED <<mounted, pgType>>
  /\ UNCHANGED <<pureVars, mapVars, leVars, aggVars>>

\* the region dropdown of the facility page: setSelectedRegion(e.target.value)
SelectRegion(region) ==
  /\ mounted = "facility"
  /\ MainView
  /\ Includes(pgOptions, region)
  /\ pgSelected' = region
  /\ UNCHANGED <<mounted, pgPc, pgData, pgLoading, pgError, pgRaw, pgOptions, pgType>>
  /\ UNCHANGED <<pureVars, mapVars, leVars, aggVars>>

\* a year dropdown that offers every year, listed or not
PageSelectYearUnlisted(year) ==
  /\ mounted \in {"imu", "corr"}
  /\ MainView
  /\ pgSelected' = year
  /\ UNCHANGED <<mounted, pgPc, pgData, pgLoading, pgError, pgRaw, pgOptions, pgType>>
  /\ UNCHANGED <<pureVars, mapVars, leVars, aggVars>>

\* the year dropdown of the immunization and of the correlation page:
\* setSelectedYear(e.target.value)
PageSelectYear(year) ==
  /\ mounted \in {"imu", "corr"}
  /\ MainView
  /\ Includes(pgOptions, year)
  /\ pgSelected' = year
  /\ UNCHANGED <<mounted, pgPc, pgData, pgLoading, pgError, pgRaw, pgOptions, pgType>>
  /\ UNCHANGED <<pureVars, mapVars, leVars, aggVars>>

\* the three buttons of the immunization page: setSelectedRegionType(...)
SelectRegionType(type) ==
  /\ mounted = "imu"
  /\ MainView
  /\ pgType' = type
  /\ UNCHANGED <<mounted, pgPc, pgData, pgLoading, pgError, pgRaw, pgOptions, pgSelected>>
  /\ UNCHANGED <<pureVars, mapVars, leVars, aggVars>>

\* a variant of handleKotaSelection that keeps "SEMUA" beside a chosen city
handleKotaSelectionKeepSemua(selectedKotas, kota) ==
  IF kota = SEMUA THEN <<SEMUA>>
  ELSE IF Includes(selectedKotas, kota)
  THEN LET others(k) == k # kota IN SelectSeq(selectedKotas, others)
  ELSE Append(selectedKotas, kota)

\* handleKotaSelection: the array it passes to setSelectedKotas
handleKotaSelection(selectedKotas, kota) ==
  IF kota = SEMUA THEN <<SEMUA>>
  ELSE IF Includes(selectedKotas, SEMUA) THEN <<kota>>
  ELSE IF Includes(selectedKotas, kota)
  THEN LET others(k) == k # kota IN SelectSeq(selectedKotas, others)
  ELSE Append(selectedKotas, kota)

\* a checkbox of the city list changes; the list is rendered when the page
\* has rows
KotaChecked(kota) ==
  /\ mounted = "infant"
  /\ MainView
  /\ Len(pgRaw) > 0
  /\ Includes(pgOptions, kota)
  /\ pgSelected' = handleKotaSelection(pgSelected, kota)
  /\ UNCHANGED <<mounted, pgPc, pgData, pgLoading, pgError, pgRaw, pgOptions, pgType>>
  /\ UNCHANGED <<pureVars, mapVars, leVars, aggVars>>

\* the render gate of the line chart: chartData[0]?.data.some((d) => d.y > 0)
chartShown(series) ==
  /\ Len(series) > 0
  /\ \E i \in 1..Len(series[1].data) : SignOfDiff(series[1].data[i].y, Num(0)) > 0

LoadFilesOf(rows) == UNION { [1..n -> rows] : n \in 0..MaxLoadRows }

LoadFacilityFiles == LoadFilesOf(FacilityRowUniverse)

LoadImuFiles == LoadFilesOf(PageImuRows)

LoadInfantFiles == LoadFilesOf(PageInfantRows)

LoadCorrFacilityFiles == LoadFilesOf(CorrFacilityRows)

LoadCorrLeFiles == LoadFilesOf(CorrLeRows)

\* the steps of the mounted page's load effect, each enabled only until the
\* effect is done
PageLoadStep ==
  /\ mounted \in {"facility", "imu", "corr", "infant"}
  /\ pgPc # "done"
  /\ \/ PageMount
     \/ PageFetchReject
     \/ \E ok \in BOOLEAN : PageFetchResolve(ok)
     \/ \E facilityOk \in BOOLEAN, lifeExpectancyOk \in BOOLEAN :
          CorrelationFetchResolve(facilityOk, lifeExpectancyOk)
     \/ \E data \in LoadFacilityFiles, hasErrors \in BOOLEAN :
          FacilityParseComplete(data, hasErrors)
     \/ \E data \in LoadImuFiles, hasErrors \in BOOLEAN :
          ImuParseComplete(data, hasErrors)
     \/ \E data \in LoadInfantFiles, hasErrors \in BOOLEAN :
          InfantParseComplete(data, hasErrors)
     \/ CorrelationParsed(LoadCorrFacilityFiles, LoadCorrLeFiles)

NextPages ==
  \/ PageMount
  \/ PageFetchReject
  \/ \E ok \in BOOLEAN : PageFetchResolve(ok)
  \/ \E facilityOk \in BOOLEAN, lifeExpectancyOk \in BOOLEAN :
       CorrelationFetchResolve(facilityOk, lifeExpectancyOk)
  \/ \E data \in FacilityFiles, hasErrors \in BOOLEAN :
       FacilityParseComplete(data, hasErrors)
  \/ \E data \in ImuFiles, hasErrors \in BOOLEAN :
       ImuParseComplete(data, hasErrors)
  \/ \E data \in InfantFiles, hasErrors \in BOOLEAN :
       InfantParseComplete(data, hasErrors)
  \/ CorrelationParsed(CorrFacilityFiles, CorrLeFiles)
  \/ \E region \in Regions : SelectRegion(region)
  \/ \E year \in PageYears : PageSelectYear(year)
  \/ \E type \in RegionTypes : SelectRegionType(type)
  \/ \E kota \in Kotas : KotaChecked(kota)
  \/ Mount
  \/ \E which \in {"csv", "geo"} : FetchReject(which)
  \/ \E csvOk \in BOOLEAN, geoOk \in BOOLEAN : FetchResolve(csvOk, geoOk)
  \/ GeoJsonUnparsable
  \/ GeoJsonEmpty
  \/ GeoJsonMalformed
  \/ \E features \in FeatureCollections : GeoJsonDecoded(features)
  \/ \E data \in CsvFiles, hasErrors \in BOOLEAN : PapaComplete(data, hasErrors)
  \/ \E data \in CsvFiles : PapaCompleteUnbatched(data)
  \/ \E data \in CsvFiles : PapaCompleteThrows(data)
  \/ \E year \in Years : SelectYear(year)

\* the steps of the five pages where progress is checked
NextLoad ==
  \/ PageMount
  \/ PageFetchReject
  \/ \E ok \in BOOLEAN : PageFetchResolve(ok)
  \/ \E facilityOk \in BOOLEAN, lifeExpectancyOk \in BOOLEAN :
       CorrelationFetchResolve(facilityOk, lifeExpectancyOk)
  \/ \E data \in LoadFacilityFiles, hasErrors \in BOOLEAN :
       FacilityParseComplete(data, hasErrors)
  \/ \E data \in LoadImuFiles, hasErrors \in BOOLEAN :
       ImuParseComplete(data, hasErrors)
  \/ \E data \in LoadInfantFiles, hasErrors \in BOOLEAN :
       InfantParseComplete(data, hasErrors)
  \/ CorrelationParsed(LoadCorrFacilityFiles, LoadCorrLeFiles)
  \/ \E region \in Regions : SelectRegion(region)
  \/ \E year \in PageYears : PageSelectYear(year)
  \/ \E type \in RegionTypes : SelectRegionType(type)
  \/ \E kota \in Kotas : KotaChecked(kota)
  \/ Mount
  \/ \E which \in {"csv", "geo"} : FetchReject(which)
  \/ \E csvOk \in BOOLEAN, geoOk \in BOOLEAN : FetchResolve(csvOk, geoOk)
  \/ GeoJsonUnparsable
  \/ GeoJsonEmpty
  \/ GeoJsonMalformed
  \/ \E features \in FeatureCollections : GeoJsonDecoded(features)
  \/ \E data \in LoadCsvFiles, hasErrors \in BOOLEAN : PapaComplete(data, hasErrors)
  \/ \E data \in LoadCsvFiles : PapaCompleteUnbatched(data)
  \/ \E data \in LoadCsvFiles : PapaCompleteThrows(data)
  \/ \E year \in Years : SelectYear(year)

\* ------------------------------------------------------------------------
\* Specifications of the pages
\* ------------------------------------------------------------------------
Init == PureIdle /\ InitMap /\ InitLe /\ AggIdle /\ mounted = "map" /\ PageNotMounted

Spec == Init /\ [][Next]_vars

InitLePage == PureIdle /\ InitMap /\ InitLe /\ AggIdle /\ PagesIdle

SpecLe == InitLePage /\ [][NextLePage]_vars

\* one of the five pages with a loading flag is mounted
InitPages ==
  /\ PureIdle
  /\ InitMap
  /\ InitLe
  /\ AggIdle
  /\ ((mounted = "map" /\ PageNotMounted) \/ InitPage)

SpecPages == InitPages /\ [][NextPages]_vars

\* the mounted page when every started fetch settles and every callback runs
SpecLive ==
  /\ InitPages
  /\ [][NextLoad]_vars
  /\ WF_vars(PageLoadStep)
  /\ WF_vars(LoadStep)

\* the filter of the cleaning step: the row is kept when the number is not NaN
Admitted == purePc \in {"int", "float"} /\ ~isNaN(pureOut)

\* ------------------------------------------------------------------------
\* Claims about the cleaning functions (checked under SpecPure)
\* ------------------------------------------------------------------------
AdminPrefixes == { KABUPATEN \o SP, KOTA \o SP }

BaseNames == { <<"X">>, <<"y">> }

\* an occurrence of the token that starts the name or follows white space
WholeWordAt(s, i, tok) ==
  /\ MatchesAt(s, i, tok)
  /\ (i = 1 \/ s[i - 1] \in WhiteSpace)

HasWholePrefixWord(s) ==
  \E i \in 1..Len(s) : \E tok \in AdminPrefixes : WholeWordAt(s, i, tok)

\* the whole field, white space around it aside, is a decimal integer
IsWholeInteger(s) ==
  LET body == dropSign(trim(s))
  IN body # <<>> /\ \A i \in 1..Len(body) : IsDigit(body[i])

\* the whole field, white space around it aside, is a finite decimal number
IsWholeDecimal(s) ==
  LET body == dropSign(trim(s))
      ip == digitPrefix(body)
      rest == SubSeq(body, Len(ip) + 1, Len(body))
  IN \/ ip # <<>> /\ rest = <<>>
     \/ /\ rest # <<>>
        /\ Head(rest) = "."
        /\ \A i \in 2..Len(rest) : IsDigit(rest[i])
        /\ (ip # <<>> \/ Len(rest) > 1)

\* C2: normalizeKey is idempotent: normalizing an already normalized name
\* returns it unchanged.
C2_Idempotent == [][purePc = "once" => pureOut' = pureOut]_vars

\* C3: normalizeKey strips the regency token and the city token alike:
\* "KOTA X" and "KABUPATEN X" both normalize to the key "X".
C3_StripsEveryPrefixToken ==
  ( /\ purePc = "once"
    /\ Len(purePieces) = 2
    /\ purePieces[1] \in AdminPrefixes
    /\ purePieces[2] \in BaseNames )
  => pureOut = toUpperCase(purePieces[2])

\* C4: a prefix token is removed only where it stands as a whole word: a
\* name without a whole prefix word loses nothing but surrounding white
\* space.
C4_WholeWordOnly ==
  (purePc = "once" /\ ~HasWholePrefixWord(pureIn))
  => pureOut = toUpperCase(trim(pureIn))

\* C6: row parsing is strict: a row is admitted only if its whole numeric
\* field denotes a finite number (an integer for the count column).
C6_StrictParsing ==
  Admitted =>
    /\ isFinite(pureOut)
    /\ IF purePc = "int" THEN IsWholeInteger(pureIn) ELSE IsWholeDecimal(pureIn)

\* ------------------------------------------------------------------------
\* Claims about the choropleth page (checked under Spec) and the
\* life-expectancy page (checked under SpecLe)
\* ------------------------------------------------------------------------
\* the sum of f over the finite set S
RECURSIVE SumOver(_, _)
SumOver(S, f) ==
  IF S = {} THEN 0
  ELSE LET x == CHOOSE y \in S : TRUE IN f[x] + SumOver(S \ {x}, f)

\* the admitted rows of the year whose normalized region name is the key
RowsOf(key, year) ==
  { j \in 1..Len(rawData) :
      rawData[j].tahun = year /\ rawData[j].nama_kabupaten_kota = key }

\* the sum of jumlah_kematian over those rows
SumOfRows(key, year) ==
  Num(SumOver(RowsOf(key, year), [j \in 1..Len(rawData) |-> rawData[j].jumlah_kematian.m]))

DrawnFeature(i) == featureHeap[geoJsonData.features[i]]

\* C1: the join normalizes the feature's name with the normalizeKey of the
\* tabular names: a feature whose normalized name equals the normalized
\* region name of an admitted row of the drawn year is given that key's sum,
\* not 'no data'.
C1_JoinUsesNormalizeKey ==
  svgMap.drawn =>
    \A i \in 1..Len(svgMap.paths) : \A j \in 1..Len(rawData) :
      ( /\ rawData[j].tahun = svgMap.year
        /\ normalizeKey(DrawnFeature(i).properties.KABKOT) = rawData[j].nama_kabupaten_kota )
      => /\ svgMap.paths[i].fill # Literal("#ccc")
         /\ svgMap.paths[i].value = SumOfRows(rawData[j].nama_kabupaten_kota, svgMap.year)

\* C5: the polygon features of the decoded GeoJSON are not mutated: every
\* feature object keeps the id, properties and geometry it was decoded with.
C5_FeaturesNotMutated == featureHeap = decodedFeatures

\* a field that does not start a number: it is missing, or its first
\* character after white space and a sign is not a digit
NonNumeric(field) ==
  \/ field = Undefined
  \/ LET body == dropSign(trimStart(field)) IN body = <<>> \/ ~IsDigit(Head(body))

NumericRowsOf(data) ==
  LET numeric(row) == ~NonNumeric(row.jumlah_kematian) IN SelectSeq(data, numeric)

HasNaNValue(agg) == \E key \in DOMAIN agg : ~isFinite(agg[key])

\* C7: a row whose value field is non-numeric contributes nothing to any
\* aggregate and creates no key; the other rows are aggregated as if it were
\* absent, and its presence never puts the page into the error state.
C7_NonNumericRowIgnored ==
  (pc = "done" /\ csvStatus = "parsed") =>
    /\ \A year \in Years :
         /\ aggregatedData(rawData, year) = aggregatedData(cleaned(NumericRowsOf(csvData)), year)
         /\ ~HasNaNValue(aggregatedData(rawData, year))
    /\ svgMap.drawn =>
         svgMap.aggregatedData = aggregatedData(cleaned(NumericRowsOf(csvData)), svgMap.year)
    /\ geoStatus = "decoded" => error = Null

\* a load in which a non-numeric row stands among rows that are aggregated
C7_Witness ==
  /\ pc = "done"
  /\ csvStatus = "parsed"
  /\ svgMap.drawn
  /\ \E j \in 1..Len(csvData) :
       /\ NonNumeric(csvData[j].jumlah_kematian)
       /\ keepRowAnyNumber(cleanRow(csvData[j]))
       /\ cleanRow(csvData[j]).tahun = svgMap.year
  /\ svgMap.aggregatedData # EmptyObject

\* C8: on every page a failed retrieval of the tabular source is fatal and
\* reported: the page ends in the error view and nothing of the failed
\* response is aggregated or handed to the chart.
C8_FetchFailureIsFatal ==
  /\ (pc = "done" /\ csvStatus \in {"rejected", "notOk"}) =>
       /\ View = "error"
       /\ rawData = <<>>
       /\ ~svgMap.drawn
  /\ (lePc \in {"rejected", "done"} /\ leStatus \in {"rejected", "notOk"}) =>
       /\ LeView = "error"
       /\ leData = <<>>
       /\ display = <<>>

\* C9: when the CSV loads and parses but the GeoJSON is unavailable,
\* unparsable or without features, the page degrades gracefully: the tabular
\* state is populated, the join is skipped and the page does not end in the
\* error view.
C9_GeoJsonFailureIsSoft ==
  (pc = "done" /\ csvStatus = "parsed" /\ geoStatus \in {"notOk", "unparsable", "empty"}) =>
    /\ rawData = cleaned(csvData)
    /\ availableYears = uniqueYears(rawData)
    /\ (Len(availableYears) > 0 => selectedYear = availableYears[1])
    /\ ~svgMap.drawn
    /\ View # "error"

\* C10: the join never fabricates a value: the value behind a feature's fill
\* and tooltip is the sum of jumlah_kematian over the admitted rows of the
\* selected year whose normalized name is the feature's key, or it is absent
\* when there is no such row.
C10_NeverFabricates ==
  svgMap.drawn =>
    /\ svgMap.year = selectedYear
    /\ Len(svgMap.paths) = Len(geoJsonData.features)
    /\ \A i \in 1..Len(svgMap.paths) :
         LET key == PropertyKey(featureKey(DrawnFeature(i).properties.KABKOT))
             path == svgMap.paths[i]
         IN IF RowsOf(key, selectedYear) = {}
            THEN path.value = UndefinedValue /\ displayValue(path) = TidakTersedia
            ELSE path.value = SumOfRows(key, selectedYear) /\ displayValue(path) = path.value

\* a drawn map with a feature that carries the sum of two rows, while rows of
\* another year are loaded and another feature has no data
C10_Witness ==
  /\ svgMap.drawn
  /\ \E i \in 1..Len(svgMap.paths) :
       /\ svgMap.paths[i].value # UndefinedValue
       /\ \E j \in 1..Len(rawData) :
            rawData[j].tahun # selectedYear /\ rawData[j].nama_kabupaten_kota = svgMap.paths[i].key
  /\ \E i \in 1..Len(svgMap.paths) : svgMap.paths[i].value = UndefinedValue

\* ------------------------------------------------------------------------
\* Claims about the colours of the map (checked under Spec)
\* ------------------------------------------------------------------------
\* C11: a feature with no matching aggregate gets the 'no data' colour in the
\* fill, mouseover and mouseout handlers ("#ccc", and "#999" as its highlight)
\* and nothing is fed to the colour scale for it; a feature with a matching
\* aggregate, a sum of 0 included, gets the scale's colour for that sum in all
\* three handlers.
C11_NoDataSentinel ==
  svgMap.drawn =>
    \A i \in 1..Len(svgMap.paths) :
      LET key == PropertyKey(featureKey(DrawnFeature(i).properties.KABKOT))
          path == svgMap.paths[i]
          hover == svgMap.hover[i]
          out == svgMap.out[i]
      IN IF RowsOf(key, selectedYear) = {}
         THEN /\ path.fill = Literal("#ccc")
              /\ hover.fill = Literal("#999")
              /\ hover.value = UndefinedValue
              /\ out = Literal("#ccc")
         ELSE /\ path.fill.kind = "reds"
              /\ path.fill.x = SumOfRows(key, selectedYear)
              /\ ~path.fill.darker
              /\ hover.fill = darker(path.fill)
              /\ hover.value = SumOfRows(key, selectedYear)
              /\ out = path.fill

\* a drawn map with a feature whose sum is 0 and a feature without aggregate
C11_Witness ==
  /\ svgMap.drawn
  /\ \E i \in 1..Len(svgMap.paths) :
       /\ svgMap.paths[i].value = Num(0)
       /\ svgMap.out[i].kind = "reds"
  /\ \E i \in 1..Len(svgMap.paths) : svgMap.paths[i].fill = Literal("#ccc")

\* C12: a feature whose KABKOT is absent or empty is 'no data' in the three
\* handlers, whatever the aggregate holds and whatever the feature's id is.
C12_NamelessFeatureIsNoData ==
  svgMap.drawn =>
    \A i \in 1..Len(svgMap.paths) :
      ~Truthy(DrawnFeature(i).properties.KABKOT)
        => /\ svgMap.paths[i].value = UndefinedValue
           /\ svgMap.paths[i].fill = Literal("#ccc")
           /\ svgMap.hover[i].fill = Literal("#999")
           /\ svgMap.out[i] = Literal("#ccc")

\* a drawn map with a feature without KABKOT and a feature with an empty
\* KABKOT, both carrying an id that is a key of the aggregate
C12_Witness ==
  /\ svgMap.drawn
  /\ \E i \in 1..Len(svgMap.paths) :
       /\ DrawnFeature(i).properties.KABKOT = Undefined
       /\ DrawnFeature(i).id \in DOMAIN svgMap.aggregatedData
  /\ \E i \in 1..Len(svgMap.paths) :
       /\ DrawnFeature(i).properties.KABKOT = <<>>
       /\ DrawnFeature(i).id \in DOMAIN svgMap.aggregatedData

\* the aggregated values of the drawn year are all the same
AllValuesEqual == \A v, w \in values(svgMap.aggregatedData) : v = w

\* the fills that come from the colour scale
ScaleFills ==
  { svgMap.paths[i].fill : i \in { j \in 1..Len(svgMap.paths) : svgMap.paths[j].value # UndefinedValue } }
    \cup { svgMap.out[i] : i \in { j \in 1..Len(svgMap.out) : svgMap.paths[j].value # UndefinedValue } }

\* C18: the colour scale is defined on every set of aggregated values: no
\* fill is computed by a division by zero, every fill of a matched feature and
\* of the legend is a defined colour, and when the values are all equal (all
\* zero included) every matched feature has one and the same colour.
C18_ScaleWellDefined ==
  /\ scaleDomain(EmptyObject) = <<Num(0), Num(1)>>
  /\ \A c \in Elements(legendFills(scaleDomain(EmptyObject))) : c.kind = "reds" /\ c.d # 0
  /\ svgMap.drawn =>
       /\ \A c \in ScaleFills \cup Elements(svgMap.legend) : c.kind = "reds" /\ c.d # 0
       /\ AllValuesEqual => \A c1, c2 \in ScaleFills : c1 = c2
       /\ (AllValuesEqual /\ values(svgMap.aggregatedData) # {Num(0)})
            => \A c1, c2 \in ScaleFills \cup Elements(svgMap.legend) : c1.n = c2.n /\ c1.d = c2.d

\* a drawn map whose year has two equal non-zero values, each on a feature
C18_Witness ==
  /\ svgMap.drawn
  /\ AllValuesEqual
  /\ Cardinality(DOMAIN svgMap.aggregatedData) = 2
  /\ values(svgMap.aggregatedData) # {Num(0)}
  /\ \E i, j \in 1..Len(svgMap.paths) :
       i # j /\ svgMap.paths[i].value # UndefinedValue /\ svgMap.paths[j].value # UndefinedValue

\* a drawn map whose values are all zero
C18_WitnessZero ==
  /\ svgMap.drawn
  /\ values(svgMap.aggregatedData) = {Num(0)}
  /\ \E i \in 1..Len(svgMap.paths) : svgMap.paths[i].value = Num(0)

\* ------------------------------------------------------------------------
\* Claims about the draw step's inputs (checked under Spec)
\* ------------------------------------------------------------------------
\* C19: whenever the map is drawn, geoJsonData is a collection with at least
\* one feature, rawData is the whole non-empty cleaned row set of the parsed
\* CSV, selectedYear is non-empty and is the drawn year; and nothing of the
\* load is stored before both fetches have been awaited.
C19_DrawInputsComplete ==
  /\ svgMap.drawn =>
       /\ ~geoJsonData.isNull
       /\ Len(geoJsonData.features) >= 1
       /\ Len(svgMap.paths) = Len(geoJsonData.features)
       /\ geoStatus = "decoded"
       /\ csvStatus = "parsed"
       /\ rawData = cleaned(csvData)
       /\ Len(rawData) > 0
       /\ Truthy(selectedYear)
       /\ svgMap.year = selectedYear
  /\ (rawData # <<>> \/ ~geoJsonData.isNull \/ availableYears # <<>>)
       => pc = "done" /\ csvStatus # "pending" /\ geoStatus # "pending"

\* a map drawn from several rows and several features
C19_Witness == svgMap.drawn /\ Len(rawData) > 1 /\ Len(geoJsonData.features) > 1

\* C20: selecting a year changes selectedYear only among the loaded data
\* (rawData, geoJsonData, availableYears and the features stay as they are),
\* and what is drawn after any sequence of selections is what the draw step
\* computes from (rawData, geoJsonData, selectedYear) on an empty svg.
C20_StatelessRecompute ==
  [][ (pc = "done" /\ pc' = "done")
        => /\ rawData' = rawData
           /\ geoJsonData' = geoJsonData
           /\ availableYears' = availableYears
           /\ featureHeap' = featureHeap
           /\ svgMap'.drawn
                => svgMap' = drawEffect(NotDrawn, featureHeap, rawData, geoJsonData,
                                        selectedYear', "main") ]_vars

\* a map drawn for a year other than the default one: a selection has acted
C20_Witness ==
  /\ svgMap.drawn
  /\ Len(availableYears) > 1
  /\ selectedYear # availableYears[1]
  /\ svgMap.year = selectedYear

\* ------------------------------------------------------------------------
\* Claims about the aggregates (checked under SpecAgg)
\* ------------------------------------------------------------------------
\* the string without its white space characters
NonBlank(str) ==
  LET isInk(c) == c \notin WhiteSpace IN SelectSeq(str, isInk)

\* a region name that is missing, empty, white space only, or nothing but
\* "KABUPATEN " prefixes
Nameless(name) ==
  \/ name = Undefined
  \/ NonBlank(name) = <<>>
  \/ /\ NonBlank(toUpperCase(name)) \in {KABUPATEN, KABUPATEN \o KABUPATEN}
     /\ name[Len(name)] = " "

\* the keys an aggregate must not have
NoKeys == { <<>>, Undefined, UndefinedKey, toUpperCase(UndefinedKey),
            <<"n", "u", "l", "l">>, <<"N", "U", "L", "L">> }

\* C13: a CSV row whose region name is missing, empty, white space only or
\* empty after prefix stripping normalizes to no key (undefined or the empty
\* string), is not among the cleaned rows, and contributes no key: every
\* cleaned row and every key of the aggregate carries a non-blank name that is
\* the normalized name of a row with a name, and the aggregate has no entry
\* under an empty, 'undefined' or 'null' key.
C13_NamelessRowsHaveNoKey ==
  (aggPage = "map" /\ aggPc \in {"cleaned", "reduced"}) =>
    LET named == { i \in 1..Len(aggData) : ~Nameless(aggData[i].nama_kabupaten_kota) }
    IN /\ \A i \in (1..Len(aggData)) \ named :
            ~Truthy(normalizeKey(aggData[i].nama_kabupaten_kota))
       /\ Len(aggRows) <= Cardinality(named)
       /\ \A j \in 1..Len(aggRows) :
            /\ NonBlank(aggRows[j].nama_kabupaten_kota) # <<>>
            /\ \E i \in named :
                 aggRows[j].nama_kabupaten_kota = normalizeKey(aggData[i].nama_kabupaten_kota)
       /\ aggPc = "reduced" =>
            /\ DOMAIN aggOut \cap NoKeys = {}
            /\ \A key \in DOMAIN aggOut :
                 /\ NonBlank(key) # <<>>
                 /\ \E i \in named : key = normalizeKey(aggData[i].nama_kabupaten_kota)

\* an aggregate of a file that holds a row without name, a row with a white
\* space name, a row whose name is only the prefix, and a row with a name
C13_Witness ==
  /\ aggPage = "map" /\ aggPc = "reduced"
  /\ \E i \in 1..Len(aggData) : aggData[i].nama_kabupaten_kota = Undefined
  /\ \E i \in 1..Len(aggData) : aggData[i].nama_kabupaten_kota = toLowerCase(KABUPATEN) \o SP
  /\ DOMAIN aggOut # {}

\* an aggregate of a file that holds a white space name and an empty name
C13_WitnessBlank ==
  /\ aggPage = "map" /\ aggPc = "reduced"
  /\ \E i \in 1..Len(aggData) : aggData[i].nama_kabupaten_kota = SP \o <<"\t">>
  /\ \E i \in 1..Len(aggData) : aggData[i].nama_kabupaten_kota = <<>>
  /\ DOMAIN aggOut # {}

\* the rows in the order the permutation p of their positions gives
Permute(rows, p) == [i \in 1..Len(rows) |-> rows[p[i]]]

\* the rows at the positions in S, in their order
Restrict(rows, S) ==
  LET acc[i \in 0..Len(rows)] ==
        IF i = 0 THEN <<>>
        ELSE IF i \in S THEN Append(acc[i - 1], rows[i]) ELSE acc[i - 1]
  IN acc[Len(rows)]

\* the mapping from key to number that a sequence of entries stands for
MapOf(entries, keyField, valueField) ==
  [ key \in { entries[i][keyField] : i \in 1..Len(entries) } |->
      entries[IndexOfKey(entries, keyField, key)][valueField] ]

\* the key-wise sum of two mappings; a key of only one keeps its number
MergeSum(a, b) ==
  [ key \in DOMAIN a \cup DOMAIN b |->
      IF key \in DOMAIN a /\ key \in DOMAIN b THEN Add(a[key], b[key])
      ELSE IF key \in DOMAIN a THEN a[key] ELSE b[key] ]

\* the aggregate of the page for the rows and the selection, as a mapping
AggregateOf(page, rows, sel) ==
  CASE page = "map" -> aggregatedData(rows, sel)
    [] page = "facility" -> MapOf(grouped(filtered(rows, sel)), "id", "value")
    [] page = "imu" -> MapOf(aggregatedByDaerah(rows, sel), "daerah", "total_imunisasi")

\* C14: the aggregate does not depend on the order of the admitted rows: for
\* every permutation of the cleaned rows, the choropleth's per-region sums of
\* the year, the facility page's per-type sums of the region and the
\* immunization page's per-region totals of the year are the same mapping.
C14_OrderInvariant ==
  (aggPc = "reduced" /\ aggPage \in {"map", "facility", "imu"}) =>
    /\ aggOut = IF aggPage = "map" THEN aggregatedData(aggRows, aggSel)
                ELSE IF aggPage = "facility" THEN grouped(filtered(aggRows, aggSel))
                ELSE aggregatedByDaerah(aggRows, aggSel)
    /\ \A p \in Permutations(1..Len(aggRows)) :
         /\ AggregateOf(aggPage, Permute(aggRows, p), aggSel) = AggregateOf(aggPage, aggRows, aggSel)
         /\ aggPage = "imu" =>
              Elements(aggregatedByDaerah(Permute(aggRows, p), aggSel)) = Elements(aggOut)
         /\ aggPage = "facility" =>
              Elements(grouped(filtered(Permute(aggRows, p), aggSel))) = Elements(aggOut)

\* per-region sums of three admitted rows of the year, two of one key with
\* different numbers and one of another key
C14_Witness ==
  /\ aggPage = "map" /\ aggPc = "reduced"
  /\ Len(aggRows) = 3
  /\ Cardinality(DOMAIN aggOut) = 2
  /\ \A i \in 1..3 : aggRows[i].tahun = aggSel
  /\ \E i, j \in 1..3 :
       /\ aggRows[i].nama_kabupaten_kota = aggRows[j].nama_kabupaten_kota
       /\ aggRows[i].jumlah_kematian # aggRows[j].jumlah_kematian

\* per-type sums whose slices come in another order for another row order
C14_WitnessFacility ==
  /\ aggPage = "facility" /\ aggPc = "reduced"
  /\ \E p \in Permutations(1..Len(aggRows)) :
       grouped(filtered(Permute(aggRows, p), aggSel)) # aggOut

\* C15: aggregation is additive: for every split of the admitted rows into
\* two disjoint parts, the aggregate of the one part followed by the other is
\* the key-wise sum of the aggregates of the parts, a key of one part only
\* keeping its value; and each slice of the facility pie for "SEMUA" is the
\* sum of that slice over the single regions.
C15_Additive ==
  (aggPc = "reduced" /\ aggPage \in {"map", "facility", "imu"}) =>
    /\ \A S \in SUBSET (1..Len(aggRows)) :
         LET one == Restrict(aggRows, S)
             other == Restrict(aggRows, (1..Len(aggRows)) \ S)
         IN AggregateOf(aggPage, one \o other, aggSel)
              = MergeSum(AggregateOf(aggPage, one, aggSel), AggregateOf(aggPage, other, aggSel))
    /\ (aggPage = "facility" /\ aggSel = SEMUA) =>
         LET regions == { aggRows[i].kota : i \in 1..Len(aggRows) }
             slice(region) == MapOf(grouped(filtered(aggRows, region)), "id", "value")
             having(id) == { region \in regions : id \in DOMAIN slice(region) }
         IN /\ { aggOut[i].id : i \in 1..Len(aggOut) } = UNION { DOMAIN slice(region) : region \in regions }
            /\ \A i \in 1..Len(aggOut) :
                 aggOut[i].value.m
                   = SumOver(having(aggOut[i].id),
                             [region \in regions |->
                                IF aggOut[i].id \in DOMAIN slice(region)
                                THEN slice(region)[aggOut[i].id].m ELSE 0])

\* the pie for "SEMUA" with a slice made of the rows of two regions
C15_Witness ==
  /\ aggPage = "facility" /\ aggPc = "reduced" /\ aggSel = SEMUA
  /\ \E i, j \in 1..Len(aggRows) :
       /\ aggRows[i].kota # aggRows[j].kota
       /\ aggRows[i].jenis = aggRows[j].jenis
  /\ Len(aggOut) = 2

\* C16: no aggregate holds an entry for a combination without admitted row:
\* every key of the choropleth's sums, every slice of the pie and every
\* region total has an admitted row of the selection behind it, and so has
\* every point of every series of the infant mortality chart.
C16_NeverZeroFilled ==
  aggPc = "reduced" =>
    CASE aggPage = "map" ->
           \A key \in DOMAIN aggOut :
             \E i \in 1..Len(aggRows) :
               aggRows[i].tahun = aggSel /\ aggRows[i].nama_kabupaten_kota = key
      [] aggPage = "facility" ->
           \A s \in 1..Len(aggOut) :
             \E i \in 1..Len(aggRows) :
               /\ aggRows[i].jenis = aggOut[s].id
               /\ aggSel = SEMUA \/ aggRows[i].kota = aggSel
      [] aggPage = "imu" ->
           \A s \in 1..Len(aggOut) :
             \E i \in 1..Len(aggRows) :
               aggRows[i].tahun = aggSel /\ aggRows[i].daerah = aggOut[s].daerah
      [] aggPage = "infant" ->
           \A s \in 1..Len(aggOut) : \A t \in 1..Len(aggOut[s].data) :
             \E i \in 1..Len(aggRows) :
               /\ aggRows[i].tahun = aggOut[s].data[t].x
               /\ aggOut[s].id = TotalJawaBarat \/ aggRows[i].nama_kabupaten_kota = aggOut[s].id

\* the three rows of the scenario
ScenarioRows ==
  << CsvRow(KABUPATEN \o SP \o BANDUNG, <<"1", "0">>, Y2020, JAWA_BARAT),
     CsvRow(KABUPATEN \o SP \o BANDUNG, <<"5">>, Y2020, JAWA_BARAT),
     CsvRow(KOTA \o SP \o BANDUNG, <<"7">>, Y2020, JAWA_BARAT) >>

CaseAndSpaceVariants(raw) ==
  LET core == trim(raw)
      cased == { core, toUpperCase(core), toLowerCase(core) }
  IN { lead \o c \o trail : lead \in { <<>>, SP, <<"\t">> }, c \in cased,
                            trail \in { <<>>, SP, <<"\t">> } }

\* C21: normalizeKey is insensitive to letter case and to white space around
\* the raw name: every raw name that differs from the cleaned one only in
\* case and surrounding white space normalizes to the same key.
C21_CaseAndSpaceInsensitive ==
  (pureKind = "name" /\ purePc = "once")
    => \A variant \in CaseAndSpaceVariants(pureIn) : normalizeKey(variant) = pureOut

\* ------------------------------------------------------------------------
\* Claims about the choropleth page's progress (checked under SpecLive)
\* ------------------------------------------------------------------------
\* both sources were loaded and at least one row was admitted
LoadedWithRows ==
  /\ pc = "done"
  /\ csvStatus = "parsed"
  /\ geoStatus = "decoded"
  /\ Len(rawData) > 0

\* C22: after both sources loaded with at least one admitted row, the map is
\* eventually drawn for the selected year (the default one as long as no year
\* was chosen) without a year being selected, whether the callback's state
\* updates are committed together or one by one.
C22_EventuallyDrawn ==
  [](LoadedWithRows => <>(svgMap.drawn /\ svgMap.year = selectedYear))

\* ------------------------------------------------------------------------
\* Claims about the pages with a loading flag (checked under SpecPages and,
\* for progress, SpecLive)
\* ------------------------------------------------------------------------
\* isLoading of the mounted page
Loading == IF mounted = "map" THEN isLoading ELSE pgLoading

\* error of the mounted page
ErrorOf == IF mounted = "map" THEN error ELSE pgError

\* the success branch of the mounted page's load ran: its data state holds
\* what the branch computes from the parsed rows
DataSet ==
  CASE mounted = "map" -> csvStatus = "parsed" /\ rawData = cleaned(csvData)
    [] mounted = "facility" -> pgPc = "done" /\ pgRaw = facilityCleaned(pgData.first)
                               /\ Len(pgOptions) > 0
    [] mounted = "imu" -> pgPc = "done" /\ pgRaw = imuFormatted(pgData.first)
                          /\ pgOptions = imuUniqueYears(pgRaw)
    [] mounted = "infant" -> pgPc = "done" /\ pgRaw = infantCleaned(pgData.first)
                             /\ Len(pgOptions) > 0
    [] mounted = "corr" -> pgPc = "done"
                           /\ pgRaw = merged(facilities(pgData.first),
                                             lifeExpectancies(pgData.second))
                           /\ pgOptions = sortedYears(pgRaw)
    [] OTHER -> FALSE

\* C23: on each of the five pages isLoading starts true, every load path
\* eventually sets it to false, and from then on it stays false with either
\* error non-null or the data state set.
C23_LoadingSettles ==
  /\ Loading
  /\ <>(~Loading)
  /\ [](~Loading => (ErrorOf # Null \/ DataSet))
  /\ [][~Loading => ~Loading']_vars

C23_Witness ==
  /\ mounted = "corr"
  /\ ~Loading
  /\ ErrorOf = Null
  /\ Len(pgRaw) > 0

\* the selection of the infant mortality page holds no entry twice
NoDuplicates(arr) == \A i \in 1..Len(arr), j \in 1..Len(arr) : arr[i] = arr[j] => i = j

\* C24: selectedKotas never holds "SEMUA" beside another entry and never the
\* same city twice; choosing "SEMUA" gives exactly ["SEMUA"], and choosing a
\* city while "SEMUA" is selected gives exactly that city.
C24_SelectionWellFormed ==
  mounted = "infant" =>
    /\ Includes(pgSelected, SEMUA) => pgSelected = <<SEMUA>>
    /\ NoDuplicates(pgSelected)
    /\ \A kota \in Kotas :
         LET chosen == handleKotaSelection(pgSelected, kota)
         IN /\ kota = SEMUA => chosen = <<SEMUA>>
            /\ (kota # SEMUA /\ Includes(pgSelected, SEMUA)) => chosen = <<kota>>

C24_Witness ==
  /\ mounted = "infant"
  /\ MainView
  /\ pgSelected = <<GARUT, BANDUNG>>

\* C25: toggling the same city twice in a row gives back the members the
\* selection had before, for every selection reachable from ["SEMUA"]; the
\* selection is never empty.
C25_ToggleTwiceRestores ==
  (mounted = "infant" /\ MainView) =>
    /\ Len(pgSelected) > 0
    /\ \A kota \in Kotas \ {SEMUA} :
         Includes(pgOptions, kota) =>
           Elements(handleKotaSelection(handleKotaSelection(pgSelected, kota), kota))
             = Elements(pgSelected)

\* some series built for the selection has a year with a total above 0
SomeSeriesHasData(series) ==
  \E k \in 1..Len(series) :
    \E i \in 1..Len(series[k].data) : SignOfDiff(series[k].data[i].y, Num(0)) > 0

\* C26: the line chart is shown exactly when some series built for the
\* current selection has a year with a total above 0.
C26_ShownIffSomeSeriesHasData ==
  (mounted = "infant" /\ MainView /\ Len(pgRaw) > 0) =>
    (chartShown(chartData(pgRaw, pgSelected))
       <=> SomeSeriesHasData(chartData(pgRaw, pgSelected)))

\* the correlation page finished its load without an error
CorrelationLoaded == mounted = "corr" /\ pgPc = "done" /\ pgError = Null

\* the sum of jumlah over the facility rows of the city and year
SumOfFacilities(rows, kota, tahun) ==
  LET acc[i \in 0..Len(rows)] ==
        IF i = 0 THEN Num(0)
        ELSE IF rows[i].kota = kota /\ rows[i].tahun = tahun
        THEN Add(acc[i - 1], rows[i].jumlah)
        ELSE acc[i - 1]
  IN acc[Len(rows)]

\* C27: the merged list holds at most one point per (kota, tahun) pair; its
\* total_faskes is the sum of jumlah over the facility rows of exactly that
\* pair, its angka_harapan_hidup that of a life-expectancy row of exactly
\* that pair; a pair without such a row has no point. Names and years may
\* hold a "-".
C27_PairsNeverMerged ==
  CorrelationLoaded =>
    LET rows == facilities(pgData.first)
        les == lifeExpectancies(pgData.second)
    IN \A i \in 1..Len(rows) :
         LET kota == rows[i].kota
             tahun == rows[i].tahun
             points == { j \in 1..Len(pgRaw) : pgRaw[j].kota = kota /\ pgRaw[j].tahun = tahun }
             matches == { l \in 1..Len(les) : les[l].kota = kota /\ les[l].tahun = tahun }
         IN /\ Cardinality(points) <= 1
            /\ matches = {} => points = {}
            /\ \A j \in points :
                 /\ pgRaw[j].total_faskes = SumOfFacilities(rows, kota, tahun)
                 /\ \E l \in matches :
                      pgRaw[j].angka_harapan_hidup = les[l].angka_harapan_hidup

\* C28: every year of availableYears yields a non-empty chartData on the
\* correlation page and a non-empty aggregate on the choropleth page; after a
\* successful load with at least one year, selectedYear is a member of the
\* offered list, whatever was selected in the dropdown.
C28_OfferedYearsHaveData ==
  /\ CorrelationLoaded =>
       /\ \A i \in 1..Len(pgOptions) :
            LET series == correlationChartData(pgRaw, pgOptions[i])
            IN Len(series) > 0 /\ \A k \in 1..Len(series) : Len(series[k].data) > 0
       /\ Len(pgOptions) > 0 => Includes(pgOptions, pgSelected)
  /\ (mounted = "map" /\ csvStatus = "parsed") =>
       /\ \A i \in 1..Len(availableYears) :
            DOMAIN aggregatedData(rawData, availableYears[i]) # {}
       /\ Len(availableYears) > 0 => Includes(availableYears, selectedYear)

C28_Witness ==
  /\ CorrelationLoaded
  /\ Len(pgOptions) = 2
  /\ pgSelected = pgOptions[1]

\* the sum of jumlah_bayi over the admitted rows of the region and year
SumOfBayi(rows, daerah, tahun) ==
  LET acc[i \in 0..Len(rows)] ==
        IF i = 0 THEN Num(0)
        ELSE IF rows[i].daerah = daerah /\ rows[i].tahun = tahun
        THEN Add(acc[i - 1], rows[i].jumlah_bayi)
        ELSE acc[i - 1]
  IN acc[Len(rows)]

\* the totals do not increase along the list
NonIncreasing(list) ==
  \A i \in 1..Len(list), j \in 1..Len(list) :
    i < j => SignOfDiff(list[i].total_imunisasi, list[j].total_imunisasi) >= 0

\* C29: for every year displayData lists each region at most once, with the
\* sum of jumlah_bayi of the region's admitted rows of the year, in
\* non-increasing order of total; the "Kota" and "Kabupaten" views are
\* disjoint and together hold exactly the entries of the "Semua" view.
C29_DisplayDataPartition ==
  (mounted = "imu" /\ MainView) =>
    \A y \in 1..Len(pgOptions) :
      LET semua == displayData(pgRaw, pgOptions[y], "Semua")
          kota == displayData(pgRaw, pgOptions[y], "Kota")
          kabupaten == displayData(pgRaw, pgOptions[y], "Kabupaten")
      IN /\ \A i \in 1..Len(semua), j \in 1..Len(semua) :
              semua[i].daerah = semua[j].daerah => i = j
         /\ \A i \in 1..Len(semua) :
              semua[i].total_imunisasi = SumOfBayi(pgRaw, semua[i].daerah, pgOptions[y])
         /\ NonIncreasing(semua) /\ NonIncreasing(kota) /\ NonIncreasing(kabupaten)
         /\ NoDuplicates(kota) /\ NoDuplicates(kabupaten)
         /\ Elements(kota) \cap Elements(kabupaten) = {}
         /\ Elements(kota) \cup Elements(kabupaten) = Elements(semua)

C29_Witness ==
  /\ mounted = "imu"
  /\ MainView
  /\ pgType = "Kota"
  /\ Len(displayData(pgRaw, pgSelected, pgType)) = 1
  /\ Len(displayData(pgRaw, pgSelected, "Semua")) = 2
  /\ displayData(pgRaw, pgSelected, "Semua") # aggregatedByDaerah(pgRaw, pgSelected)

\* year is numerically at least the tahun of every row that carries a number
GreatestYearOf(year, rows) ==
  \A i \in 1..Len(rows) :
    ~isNaN(ToNumber(rows[i].tahun)) =>
      /\ ~isNaN(ToNumber(year))
      /\ SignOfDiff(ToNumber(year), ToNumber(rows[i].tahun)) >= 0

\* C30: the step that completes a successful load with at least one admitted
\* (on the correlation page: merged) row leaves the numerically greatest
\* tahun of those rows selected, on the choropleth, the immunization and the
\* correlation page, whatever the lengths of the year strings.
C30_DefaultYearIsGreatest ==
  [][ /\ ( /\ mounted = "map"
           /\ pc # "done" /\ pc' = "done"
           /\ csvStatus' = "parsed" /\ Len(rawData') > 0 )
         => GreatestYearOf(selectedYear', rawData')
      /\ ( /\ mounted \in {"imu", "corr"}
           /\ pgPc # "done" /\ pgPc' = "done"
           /\ pgError' = Null /\ Len(pgRaw') > 0 )
         => GreatestYearOf(pgSelected', pgRaw')
    ]_vars

\* the same property on the choropleth page alone
DefaultYearIsGreatestOnMap ==
  [][ ( /\ mounted = "map"
        /\ pc # "done" /\ pc' = "done"
        /\ csvStatus' = "parsed" /\ Len(rawData') > 0 )
      => GreatestYearOf(selectedYear', rawData')
    ]_vars

====
